---- MODULE Spec2Model ----
(***************************************************************************)
(* Key manager v2 (redhat-et/maas-billing): the team / API-key lifecycle   *)
(* handlers of main.go and the policy engine of                            *)
(* internal/policies/dynamic-policies.go.                                  *)
(*                                                                         *)
(* Every handler is split at its calls into the Kubernetes API server (the *)
(* entity store of Secrets and the policy store of Kuadrant objects).  A   *)
(* call either completes or fails; a failed call changes nothing.  Under   *)
(* Spec one request is served at a time, under SpecConc the requests of    *)
(* two callers interleave at the store calls, and SpecResolve applies the  *)
(* tier lookup and the override rules to drawn inputs.  Policy management  *)
(* is on (ENABLE_POLICY_MANAGEMENT defaults to "true").  The fields calls, *)
(* wrote, had and during of a request and the variable created are        *)
(* history: no handler reads them.                                         *)
(***************************************************************************)
EXTENDS Integers, Sequences, FiniteSets, TLC

VARIABLES envDefaultTier, started, secrets, policies,
          procs, nextToken, resolver, created, startup

vars == <<envDefaultTier, started, secrets, policies,
          procs, nextToken, resolver, created, startup>>

(***************************************************************************)
(* Bounds of the model.                                                    *)
(***************************************************************************)
MaxTokens == 2
MaxRecursion == 3

Procs == {"A", "B"}
Users == {"u1", "u2"}
DefaultTeam == "default"
TeamIds == {DefaultTeam, "t1"}
Kinds == {"token", "request"}

(***************************************************************************)
(* Tier table and limit resolver (dynamic-policies.go).                    *)
(***************************************************************************)
Unlimited == -1
KnownTiers == {"free", "standard", "premium", "unlimited"}
FallbackTier == "standard"
defaultTeamTier == "standard"
secretSelectorValue == "rhcl-keys"
TokenLength == 48

TierTable ==
  [free      |-> [TokenLimit |-> 2000,  TokenWindow |-> "1m",
                  RequestLimit |-> 60,  RequestWindow |-> "1m",
                  ModelsAllowed |-> {"simulator-model"}],
   standard  |-> [TokenLimit |-> 10000, TokenWindow |-> "1m",
                  RequestLimit |-> 120, RequestWindow |-> "1m",
                  ModelsAllowed |-> {"simulator-model", "qwen3-0-6b-instruct"}],
   premium   |-> [TokenLimit |-> 50000, TokenWindow |-> "1m",
                  RequestLimit |-> 600, RequestWindow |-> "1m",
                  ModelsAllowed |-> {"simulator-model", "qwen3-0-6b-instruct",
                                     "premium-models"}],
   unlimited |-> [TokenLimit |-> Unlimited, TokenWindow |-> "1h",
                  RequestLimit |-> Unlimited, RequestWindow |-> "1h",
                  ModelsAllowed |-> {"*"}]]

NoLimits == [TokenLimit |-> 0, TokenWindow |-> "", RequestLimit |-> 0,
             RequestWindow |-> "", ModelsAllowed |-> {}]

getEnvOrDefault(value, defaultValue) ==
  IF value # "" THEN value ELSE defaultValue

GetDefaultTier == getEnvOrDefault(envDefaultTier, FallbackTier)

\* One activation of GetTierLimits(tier) at recursion depth `depth`: it
\* returns the limits of a known tier, or calls itself with the default
\* tier; "overflow" stands for a recursion that is still going after
\* MaxRecursion calls (it never returns: the goroutine stack overflows).
GetTierLimitsFrame(tier, depth) ==
  LET switched == IF tier = "" THEN GetDefaultTier ELSE tier IN
  IF switched \in KnownTiers
    THEN [pc |-> "return", tier |-> switched, depth |-> depth,
          limits |-> TierTable[switched]]
  ELSE IF depth >= MaxRecursion
    THEN [pc |-> "overflow", tier |-> switched, depth |-> depth,
          limits |-> NoLimits]
  ELSE [pc |-> "call", tier |-> GetDefaultTier, depth |-> depth + 1,
        limits |-> NoLimits]

\* GetTierLimits as the handlers use it: the frames run to the end.
RECURSIVE GetTierLimitsFrom(_, _)
GetTierLimitsFrom(tier, depth) ==
  LET frame == GetTierLimitsFrame(tier, depth) IN
  IF frame.pc = "call" THEN GetTierLimitsFrom(frame.tier, frame.depth)
  ELSE [ok |-> frame.pc = "return", limits |-> frame.limits,
        depth |-> frame.depth]

GetTierLimits(tier) == GetTierLimitsFrom(tier, 0)

\* createTeam: "Override with custom limits if provided".
ApplyTeamOverrides_Always(limits, tokenLimit, requestLimit, timeWindow) ==
  [limits EXCEPT !.TokenLimit = tokenLimit, !.RequestLimit = requestLimit,
                 !.TokenWindow = timeWindow, !.RequestWindow = timeWindow]

ApplyTeamOverrides_Leaky(limits, tokenLimit, requestLimit, timeWindow) ==
  [limits EXCEPT
     !.TokenLimit    = IF tokenLimit > 0 THEN tokenLimit ELSE @,
     !.RequestLimit  = IF requestLimit > 0 THEN requestLimit
                       ELSE IF tokenLimit > 0 THEN tokenLimit ELSE @,
     !.TokenWindow   = IF timeWindow # "" THEN timeWindow ELSE @,
     !.RequestWindow = IF timeWindow # "" THEN timeWindow ELSE @]

ApplyTeamOverrides_NonZero(limits, tokenLimit, requestLimit, timeWindow) ==
  [limits EXCEPT
     !.TokenLimit    = IF tokenLimit # 0 THEN tokenLimit ELSE @,
     !.RequestLimit  = IF requestLimit # 0 THEN requestLimit ELSE @,
     !.TokenWindow   = IF timeWindow # "" THEN timeWindow ELSE @,
     !.RequestWindow = IF timeWindow # "" THEN timeWindow ELSE @]

ApplyTeamOverrides(limits, tokenLimit, requestLimit, timeWindow) ==
  [limits EXCEPT
     !.TokenLimit    = IF tokenLimit > 0 THEN tokenLimit ELSE @,
     !.RequestLimit  = IF requestLimit > 0 THEN requestLimit ELSE @,
     !.TokenWindow   = IF timeWindow # "" THEN timeWindow ELSE @,
     !.RequestWindow = IF timeWindow # "" THEN timeWindow ELSE @]


(***************************************************************************)
(* Identifiers, credentials and formatted annotations (main.go).           *)
(***************************************************************************)
MaxIDLength == 63
LowerAlnum == {"a", "b", "d", "e", "f", "l", "t", "u", "x", "1", "2"}

\* The characters of the identifiers that requests carry.
IdChars ==
  ("default" :> <<"d", "e", "f", "a", "u", "l", "t">>) @@
  ("t1" :> <<"t", "1">>) @@ ("u1" :> <<"u", "1">>) @@
  ("u2" :> <<"u", "2">>) @@ ("x-" :> <<"x", "-">>) @@ ("" :> <<>>)

\* isValidUserID: ^[a-z0-9]([a-z0-9-]*[a-z0-9])?$ on 1..63 characters.
isValidUserID(id) ==
  LET cs == IdChars[id] IN
    /\ Len(cs) > 0 /\ Len(cs) <= MaxIDLength
    /\ \A i \in 1..Len(cs) : cs[i] \in LowerAlnum \cup {"-"}
    /\ cs[1] \in LowerAlnum
    /\ cs[Len(cs)] \in LowerAlnum

isValidTeamID(id) == isValidUserID(id)

\* fmt.Sprintf("%d", n) and fmt.Sscanf(s, "%d", &n) on annotation values.
DigitChars == <<"0", "1", "2", "3", "4", "5", "6", "7", "8", "9">>

RECURSIVE FormatNat(_)
FormatNat(n) ==
  IF n < 10 THEN <<DigitChars[n + 1]>>
            ELSE FormatNat(n \div 10) \o <<DigitChars[(n % 10) + 1]>>

FormatInt(n) == IF n < 0 THEN <<"-">> \o FormatNat(0 - n) ELSE FormatNat(n)

DigitValue(c) == (CHOOSE i \in 1..10 : DigitChars[i] = c) - 1

RECURSIVE ParseNat(_, _)
ParseNat(cs, acc) ==
  IF cs = <<>> THEN acc ELSE ParseNat(Tail(cs), acc * 10 + DigitValue(Head(cs)))

\* Sscanf leaves the target at its zero value when nothing is scanned.
ParseInt(cs) ==
  IF cs = <<>> THEN 0
  ELSE IF Head(cs) = "-" THEN 0 - ParseNat(Tail(cs), 0)
  ELSE ParseNat(cs, 0)

\* generateSecureToken yields tokens 1, 2, ..; the hex digest of a token, as
\* the digits the code slices: keyHash[:8] names the record and
\* keyHash[:32] is its lookup label.
Sha256Hex(apiKey) ==
  <<(apiKey * 7) % 16, (apiKey * 11 + 3) % 16, (apiKey * 13 + 5) % 16,
    (apiKey * 5 + 1) % 16>>
NamePrefix(keyHash) == SubSeq(keyHash, 1, 1)
LabelPrefix(keyHash) == SubSeq(keyHash, 1, 2)
\* A lookup by the digits that name the record.
LookupPrefix_Name(keyHash) == SubSeq(keyHash, 1, 1)
LookupPrefix(keyHash) == SubSeq(keyHash, 1, 2)

(***************************************************************************)
(* The entity store: Secrets, one record shape for team-config and         *)
(* team-key secrets.                                                       *)
(***************************************************************************)
TeamSecretName(teamID) == <<"team", teamID, "config">>
KeySecretName(userID, teamID, keyHash) ==
  <<"apikey", userID, teamID, NamePrefix(keyHash)>>

SecretNames == {s.name : s \in secrets}
SecretExists(name) == name \in SecretNames
GetSecret(name) == CHOOSE s \in secrets : s.name = name

\* createTeamConfigSecret
TeamConfigSecret(req) ==
  [name         |-> TeamSecretName(req.team),
   rtype        |-> "team-config",
   selector     |-> "",
   team         |-> req.team,
   user         |-> "",
   role         |-> "",
   tier         |-> req.tier,
   fp           |-> <<>>,
   teamName     |-> req.teamName,
   tokenLimit   |-> FormatInt(req.tokenLimit),
   requestLimit |-> FormatInt(req.requestLimit),
   timeWindow   |-> req.timeWindow,
   models       |-> {},
   status       |-> "",
   alias        |-> "",
   apiKey       |-> 0]

NoMember == [UserID |-> "", Role |-> "", TeamID |-> "", TeamName |-> "",
             Tier |-> "", DefaultModels |-> {}, TokenLimit |-> 0,
             RequestLimit |-> 0, TimeWindow |-> ""]

\* createEnhancedKeySecret
EnhancedKeySecret(teamID, req, apiKey, teamMember) ==
  LET keyHash == Sha256Hex(apiKey) IN
  [name         |-> KeySecretName(req.user, teamID, keyHash),
   rtype        |-> "team-key",
   selector     |-> secretSelectorValue,
   team         |-> teamID,
   user         |-> req.user,
   role         |-> teamMember.Role,
   tier         |-> teamMember.Tier,
   fp           |-> LabelPrefix(keyHash),
   teamName     |-> teamMember.TeamName,
   tokenLimit   |-> FormatInt(IF req.tokenLimit = 0 THEN teamMember.TokenLimit
                                                     ELSE req.tokenLimit),
   requestLimit |-> FormatInt(IF req.requestLimit = 0 THEN teamMember.RequestLimit
                                                       ELSE req.requestLimit),
   timeWindow   |-> IF req.timeWindow = "" THEN teamMember.TimeWindow
                                           ELSE req.timeWindow,
   models       |-> IF req.models = {} THEN teamMember.DefaultModels
                                       ELSE req.models,
   status       |-> "active",
   alias        |-> req.alias,
   apiKey       |-> apiKey]

\* List with the selector kuadrant.io/apikeys-by=rhcl-keys,maas/team-id=..
TeamKeySecrets(teamID) ==
  {s \in secrets : s.selector = "rhcl-keys" /\ s.team = teamID}
\* .. narrowed by maas/user-id.
UserTeamKeySecrets(teamID, userID) ==
  {s \in TeamKeySecrets(teamID) : s.user = userID}
\* List with the selector maas/key-sha256=keyHash[:32].
SecretsByKey(apiKey) ==
  {s \in secrets : s.fp = LookupPrefix(Sha256Hex(apiKey))}

\* The TeamMember that createTeamKey synthesizes for the default team.
DefaultTeamMember(userID) ==
  LET limits == GetTierLimits(defaultTeamTier).limits IN
  [UserID |-> userID, Role |-> "member", TeamID |-> DefaultTeam,
   TeamName |-> "Default Team", Tier |-> defaultTeamTier,
   DefaultModels |-> limits.ModelsAllowed, TokenLimit |-> limits.TokenLimit,
   RequestLimit |-> limits.RequestLimit, TimeWindow |-> limits.TokenWindow]

\* validateTeamMembershipFromAPIKey, from the listed item it takes.
MemberFromSecret(teamID, userID, secret) ==
  [UserID |-> userID, Role |-> secret.role, TeamID |-> teamID,
   TeamName |-> secret.teamName, Tier |-> secret.tier,
   DefaultModels |-> GetTierLimits(secret.tier).limits.ModelsAllowed,
   TokenLimit |-> ParseInt(secret.tokenLimit),
   RequestLimit |-> ParseInt(secret.requestLimit),
   TimeWindow |-> secret.timeWindow]


(***************************************************************************)
(* The policy store: TokenRateLimitPolicy and RateLimitPolicy objects.     *)
(* An object lives under its resource; a request names a version of the    *)
(* resource, and is refused when the cluster does not serve that version.  *)
(***************************************************************************)
PolicyResource(kind) ==
  IF kind = "token" THEN "tokenratelimitpolicies" ELSE "ratelimitpolicies"
PublishVersion(kind) == IF kind = "token" THEN "v1alpha1" ELSE "v1"
RetractVersion(kind) == IF kind = "token" THEN "v1alpha1" ELSE "v1beta3"
\* The cluster serves the versions the publisher creates with; whether it
\* also serves another version of the resource is the cluster's choice.
VersionServed(kind, version, othersServed) ==
  version = PublishVersion(kind) \/ othersServed

\* team-%s-token-limits, team-%s-request-limits
PolicyName(teamID, kind) == <<"team", teamID, kind, "limits">>

PolicyExists(kind, name) ==
  \E o \in policies : o.resource = PolicyResource(kind) /\ o.name = name
GetPolicy(kind, name) ==
  CHOOSE o \in policies : o.resource = PolicyResource(kind) /\ o.name = name

\* A builder that writes the token limit into both kinds.
KindLimit_TokenOnly(kind, limits) == limits.TokenLimit

KindLimit(kind, limits) ==
  IF kind = "token" THEN limits.TokenLimit ELSE limits.RequestLimit
KindWindow(kind, limits) ==
  IF kind = "token" THEN limits.TokenWindow ELSE limits.RequestWindow

\* The manifest CreateTeamTokenRateLimit / CreateTeamRequestRateLimit build.
PolicyManifest(teamID, kind, limits, rv) ==
  [resource  |-> PolicyResource(kind),
   name      |-> PolicyName(teamID, kind),
   team      |-> teamID,
   limit     |-> KindLimit(kind, limits),
   window    |-> KindWindow(kind, limits),
   counter   |-> "auth.identity.userid",
   predicate |-> teamID,
   rv        |-> rv]

\* A publisher that skips a kind only for an unlimited tier.
SkipPolicy_UnlimitedOnly(teamID, kind, limits) ==
  KindLimit(kind, limits) = Unlimited

\* "Skip creating policy if unlimited tier" / "for default team".
SkipPolicy(teamID, kind, limits) ==
  KindLimit(kind, limits) = Unlimited \/ teamID = DefaultTeam

\* The resource version the store gives an object that caller p writes.
\* Versions are opaque and only compared for equality with a version a
\* caller fetched, so the store hands out the least one no other caller
\* holds.
FreshVersion(p) ==
  CHOOSE n \in 1..(Cardinality(Procs) + 1) :
    /\ \A q \in Procs \ {p} : procs[q].rv # n
    /\ \A m \in 1..(n - 1) : \E q \in Procs \ {p} : procs[q].rv = m

(***************************************************************************)
(* Requests in flight.                                                     *)
(***************************************************************************)
StatusOK == 200
StatusBadRequest == 400
StatusForbidden == 403
StatusNotFound == 404
StatusConflict == 409
StatusInternalServerError == 500

\* The JSON body of updateKey: the fields present, and their values.
NoUpdate == [has |-> {}, token_limit |-> 0, request_limit |-> 0,
             time_window |-> "", status |-> ""]

NoRequest == [team |-> "", teamName |-> "", tier |-> "", user |-> "",
              tokenLimit |-> 0, requestLimit |-> 0, timeWindow |-> "",
              models |-> {}, alias |-> "", key |-> 0, name |-> <<>>,
              body |-> NoUpdate]

\* The limits of a CreateTeamKeyResponse.
NoResponse == [TokenLimit |-> 0, RequestLimit |-> 0, TimeWindow |-> ""]

Idle == [pc |-> "idle", op |-> "", req |-> NoRequest, kind |-> "",
         limits |-> NoLimits, rv |-> 0, target |-> <<>>, member |-> NoMember,
         apiKey |-> 0, status |-> 0, error |-> "", calls |-> <<>>,
         wrote |-> FALSE, had |-> {}, during |-> {},
         resp |-> NoResponse, members |-> {}, keys |-> {},
         rateLimitName |-> <<>>]

Begin(op, req) == [Idle EXCEPT !.op = op, !.req = req]
Called(pr, call, outcome) ==
  [pr EXCEPT !.calls = Append(@, <<call, outcome>>)]
Respond(pr, status) == [pr EXCEPT !.pc = "done", !.status = status]
Fail(pr, status, message) ==
  [pr EXCEPT !.pc = "done", !.status = status, !.error = message]

\* A handler that takes a team that is not there for granted.
TeamNotFound_AsOK(pr, call, fault) ==
  Respond(Called(pr, call, IF fault THEN "error" ELSE "notfound"), StatusOK)

\* "Validate team exists": the Get of team-<id>-config returned an error,
\* whichever, and the handler answers 404.
TeamNotFound(pr, call, fault) ==
  Fail(Called(pr, call, IF fault THEN "error" ELSE "notfound"),
       StatusNotFound, "Team not found")


(***************************************************************************)
(* Policy Publisher: CreateTeamRateLimitPolicies and the upsert of each    *)
(* kind (dynamic-policies.go).                                             *)
(***************************************************************************)
\* A publisher that stops after the first kind.
KindsAfter_None(kind) == <<>>

KindsAfter(kind) == IF kind = "token" THEN <<"request">> ELSE <<>>

\* The next kind whose publish reaches the policy store, or the 200 of the
\* handler when none is left.
RECURSIVE PublishNext(_, _)
PublishNext(pr, kinds) ==
  IF kinds = <<>> THEN Respond(pr, StatusOK)
  ELSE IF SkipPolicy(pr.req.team, Head(kinds), pr.limits)
    THEN PublishNext(pr, Tail(kinds))
    ELSE [pr EXCEPT !.pc = "pub_create", !.kind = Head(kinds)]

ExistingKinds(teamID) ==
  {kind \in Kinds : PolicyExists(kind, PolicyName(teamID, kind))}

CreateTeamRateLimitPolicies(pr, limits) ==
  PublishNext([pr EXCEPT !.limits = limits, !.had = ExistingKinds(pr.req.team)],
              <<"token", "request">>)

\* createTeam without the "Rollback team secret creation" step.
PublishFailed_NoRollback(pr) ==
  Fail(pr, StatusInternalServerError,
       IF pr.op = "createTeam" THEN "Failed to apply team policies"
                               ELSE "Failed to sync team policies")

\* A publisher that goes on to the next kind after an error.
PublishFailed_Continue(pr) == PublishNext(pr, KindsAfter(pr.kind))

\* A publisher that tries a failed call of a kind a second time.
PublishFailed_RetryOnce(pr) ==
  IF Cardinality({i \in DOMAIN pr.calls : pr.calls[i][1][2] = pr.kind}) < 2
    THEN [pr EXCEPT !.pc = "pub_create"]
  ELSE IF pr.op = "createTeam"
    THEN [pr EXCEPT !.pc = "ct_rollback"]
    ELSE Fail(pr, StatusInternalServerError, "Failed to sync team policies")

\* What the handler does with a publish error: createTeam rolls back,
\* syncTeamPolicies answers 500.
PublishFailed(pr) ==
  IF pr.op = "createTeam"
    THEN [pr EXCEPT !.pc = "ct_rollback"]
    ELSE Fail(pr, StatusInternalServerError, "Failed to sync team policies")

\* History: the teams whose record stands and whose createTeam answered 200.
TrackCreated(p) ==
  created' = {t \in created : TeamSecretName(t) \in {s.name : s \in secrets'}}
             \cup (IF /\ procs[p].pc # "done" /\ procs'[p].pc = "done"
                      /\ procs'[p].op = "createTeam"
                      /\ procs'[p].status = StatusOK
                     THEN {procs'[p].req.team} ELSE {})

Others(p) ==
  /\ UNCHANGED <<envDefaultTier, started, nextToken, resolver, startup>>
  /\ TrackCreated(p)

\* Resource(gvr).Create
PolicyCreate(p) ==
  /\ procs[p].pc = "pub_create"
  /\ \E fault \in BOOLEAN :
       LET pr   == procs[p]
           call == <<"policy.create", pr.kind>>
           name == PolicyName(pr.req.team, pr.kind)
       IN IF fault
            THEN /\ procs' = [procs EXCEPT ![p] =
                               PublishFailed(Called(pr, call, "error"))]
                 /\ UNCHANGED policies
          ELSE IF PolicyExists(pr.kind, name)
            THEN /\ procs' = [procs EXCEPT ![p] =
                               [Called(pr, call, "exists") EXCEPT !.pc = "pub_get"]]
                 /\ UNCHANGED policies
          ELSE /\ policies' = policies \cup
                    {PolicyManifest(pr.req.team, pr.kind, pr.limits, FreshVersion(p))}
               /\ procs' = [procs EXCEPT ![p] =
                    PublishNext(Called(pr, call, "ok"), KindsAfter(pr.kind))]
  /\ UNCHANGED secrets /\ Others(p)

\* Resource(gvr).Get of the existing object
PolicyGet(p) ==
  /\ procs[p].pc = "pub_get"
  /\ \E fault \in BOOLEAN :
       LET pr   == procs[p]
           call == <<"policy.get", pr.kind>>
           name == PolicyName(pr.req.team, pr.kind)
       IN IF fault \/ ~PolicyExists(pr.kind, name)
            THEN procs' = [procs EXCEPT ![p] =
                   PublishFailed(Called(pr, call,
                                        IF fault THEN "error" ELSE "notfound"))]
            ELSE procs' = [procs EXCEPT ![p] =
                   [Called(pr, call, "ok") EXCEPT
                      !.pc = "pub_update", !.rv = GetPolicy(pr.kind, name).rv]]
  /\ UNCHANGED <<secrets, policies>> /\ Others(p)

\* Resource(gvr).Update with the resource version of the fetched object
PolicyUpdate(p) ==
  /\ procs[p].pc = "pub_update"
  /\ \E fault \in BOOLEAN :
       LET pr   == procs[p]
           call == <<"policy.update", pr.kind>>
           name == PolicyName(pr.req.team, pr.kind)
           outcome == IF fault THEN "error"
                      ELSE IF ~PolicyExists(pr.kind, name) THEN "notfound"
                      ELSE IF GetPolicy(pr.kind, name).rv # pr.rv THEN "conflict"
                      ELSE "ok"
       IN IF outcome # "ok"
            THEN /\ procs' = [procs EXCEPT ![p] =
                      PublishFailed([Called(pr, call, outcome) EXCEPT !.rv = 0])]
                 /\ UNCHANGED policies
            ELSE /\ policies' = (policies \ {GetPolicy(pr.kind, name)}) \cup
                      {PolicyManifest(pr.req.team, pr.kind, pr.limits, FreshVersion(p))}
                 /\ procs' = [procs EXCEPT ![p] =
                      PublishNext([Called(pr, call, "ok") EXCEPT !.rv = 0],
                                  KindsAfter(pr.kind))]
  /\ UNCHANGED secrets /\ Others(p)

(***************************************************************************)
(* Team handlers (main.go): createTeam, deleteTeam, syncTeamPolicies.      *)
(***************************************************************************)
\* getAvailableTiers
getAvailableTiers == {"free", "standard", "premium", "unlimited"}

\* ShouldBindJSON of CreateTeamRequest: team_id, team_name and default_tier
\* are required.
BindCreateTeam(req) == req.team # "" /\ req.teamName # "" /\ req.tier # ""

validateTeamRequest_NoTierCheck(req) ==
  isValidTeamID(req.team) /\ req.teamName # ""

validateTeamRequest(req) ==
  /\ isValidTeamID(req.team)
  /\ req.teamName # ""
  /\ getEnvOrDefault(req.tier, getEnvOrDefault(envDefaultTier, "standard"))
       \in getAvailableTiers

\* The limits createTeam publishes.
CreateTeamLimits(req) ==
  ApplyTeamOverrides(GetTierLimits(req.tier).limits,
                     req.tokenLimit, req.requestLimit, req.timeWindow)

\* History: the other callers whose createTeam for the same team is under
\* way when caller p begins.
InFlight(p, teamID) ==
  {q \in Procs \ {p} : /\ procs[q].op = "createTeam"
                        /\ procs[q].pc \notin {"idle", "done"}
                        /\ procs[q].req.team = teamID}

\* A createTeam that goes on to create whatever its Get returned.
TeamAlreadyExists_Never(fault, teamID) == FALSE

\* "Check if team already exists": err == nil && existingSecret != nil.
TeamAlreadyExists(fault, teamID) ==
  ~fault /\ SecretExists(TeamSecretName(teamID))

\* createTeam up to its existence check; a Get that fails counts as
\* "no such team".
CreateTeam(p, req) ==
  /\ started /\ procs[p].pc = "idle"
  /\ \E fault \in BOOLEAN :
       LET pr   == [Begin("createTeam", req) EXCEPT !.during = InFlight(p, req.team)]
           call == <<"secrets.get", "">>
       IN procs' = [procs EXCEPT ![p] =
         IF ~BindCreateTeam(req) \/ ~validateTeamRequest(req)
           THEN Fail(pr, StatusBadRequest, "validation")
         ELSE IF TeamAlreadyExists(fault, req.team)
           THEN Fail(Called(pr, call, "ok"), StatusConflict, "Team already exists")
         ELSE [Called(pr, call,
                      IF fault THEN "error"
                      ELSE IF SecretExists(TeamSecretName(req.team)) THEN "ok"
                      ELSE "notfound")
                 EXCEPT !.pc = "ct_create"]]
  /\ UNCHANGED <<secrets, policies>> /\ Others(p)

\* createTeamConfigSecret, then the first publish
CreateTeamSecret(p) ==
  /\ procs[p].pc = "ct_create"
  /\ \E fault \in BOOLEAN :
       LET pr   == procs[p]
           call == <<"secrets.create", "">>
       IN IF fault \/ SecretExists(TeamSecretName(pr.req.team))
            THEN /\ procs' = [procs EXCEPT ![p] =
                      Fail(Called(pr, call, IF fault THEN "error" ELSE "exists"),
                           StatusInternalServerError, "Failed to create team")]
                 /\ UNCHANGED secrets
            ELSE /\ secrets' = secrets \cup {TeamConfigSecret(pr.req)}
                 /\ procs' = [procs EXCEPT ![p] =
                      CreateTeamRateLimitPolicies(
                        [Called(pr, call, "ok") EXCEPT !.wrote = TRUE],
                        CreateTeamLimits(pr.req))]
  /\ UNCHANGED policies /\ Others(p)

\* "Rollback team secret creation": the result of the Delete is dropped.
CreateTeamRollback(p) ==
  /\ procs[p].pc = "ct_rollback"
  /\ \E fault \in BOOLEAN :
       LET pr   == procs[p]
           call == <<"secrets.delete", "">>
           name == TeamSecretName(pr.req.team)
       IN IF fault \/ ~SecretExists(name)
            THEN /\ procs' = [procs EXCEPT ![p] =
                      Fail(Called(pr, call, IF fault THEN "error" ELSE "notfound"),
                           StatusInternalServerError,
                           "Failed to apply team policies")]
                 /\ UNCHANGED secrets
            ELSE /\ secrets' = secrets \ {GetSecret(name)}
                 /\ procs' = [procs EXCEPT ![p] =
                      Fail(Called(pr, call, "ok"), StatusInternalServerError,
                           "Failed to apply team policies")]
  /\ UNCHANGED policies /\ Others(p)

\* deleteTeam up to its existence check
DeleteTeam(p, teamID) ==
  /\ started /\ procs[p].pc = "idle"
  /\ \E fault \in BOOLEAN :
       LET pr   == Begin("deleteTeam", [NoRequest EXCEPT !.team = teamID])
           call == <<"secrets.get", "">>
       IN procs' = [procs EXCEPT ![p] =
         IF fault \/ ~SecretExists(TeamSecretName(teamID))
           THEN TeamNotFound(pr, call, fault)
           ELSE [Called(pr, call, "ok") EXCEPT
                   !.pc = "dt_policy", !.kind = "token"]]
  /\ UNCHANGED <<secrets, policies>> /\ Others(p)

\* A deleteTeam that gives up when a policy delete fails.
AfterRetract_Fatal(pr, outcome) ==
  IF outcome # "ok"
    THEN Fail(pr, StatusInternalServerError, "Failed to delete team policies")
  ELSE IF pr.kind = "token" THEN [pr EXCEPT !.pc = "dt_policy", !.kind = "request"]
  ELSE [pr EXCEPT !.pc = "dt_keys", !.kind = ""]

\* A deleteTeam that goes from the policies straight to the Team record.
AfterRetract_SkipKeys(pr, outcome) ==
  IF pr.kind = "token" THEN [pr EXCEPT !.pc = "dt_policy", !.kind = "request"]
  ELSE [pr EXCEPT !.pc = "dt_team", !.kind = ""]

\* What follows the delete of one kind, whatever it returned: the delete
\* of the request policy after that of the token policy, then the keys.
AfterRetract(pr, outcome) ==
  IF pr.kind = "token" THEN [pr EXCEPT !.pc = "dt_policy", !.kind = "request"]
  ELSE [pr EXCEPT !.pc = "dt_keys", !.kind = ""]

\* DeleteTeamPolicies: DeleteTeamTokenRateLimit, then
\* DeleteTeamRequestRateLimit; a failure is logged and dropped.
DeleteTeamPolicy(p) ==
  /\ procs[p].pc = "dt_policy"
  /\ \E fault \in BOOLEAN, othersServed \in BOOLEAN :
       LET pr   == procs[p]
           call == <<"policy.delete", pr.kind>>
           name == PolicyName(pr.req.team, pr.kind)
           served == VersionServed(pr.kind, RetractVersion(pr.kind), othersServed)
           outcome == IF fault THEN "error"
                      ELSE IF ~served THEN "unserved"
                      ELSE IF ~PolicyExists(pr.kind, name) THEN "notfound"
                      ELSE "ok"
       IN /\ policies' = IF outcome = "ok"
                           THEN policies \ {GetPolicy(pr.kind, name)}
                           ELSE policies
          /\ procs' = [procs EXCEPT ![p] =
               AfterRetract(Called(pr, call, outcome), outcome)]
  /\ UNCHANGED secrets /\ Others(p)

\* deleteAllTeamKeys: DeleteCollection by label selector; a failure is
\* logged and dropped.
DeleteAllTeamKeys(p) ==
  /\ procs[p].pc = "dt_keys"
  /\ \E fault \in BOOLEAN :
       LET pr   == procs[p]
           call == <<"secrets.deletecollection", "">>
       IN /\ secrets' = IF fault THEN secrets
                                 ELSE secrets \ TeamKeySecrets(pr.req.team)
          /\ procs' = [procs EXCEPT ![p] =
               [Called(pr, call, IF fault THEN "error" ELSE "ok") EXCEPT
                  !.pc = "dt_team"]]
  /\ UNCHANGED policies /\ Others(p)

\* Delete of the team configuration secret, and the response
DeleteTeamSecret(p) ==
  /\ procs[p].pc = "dt_team"
  /\ \E fault \in BOOLEAN :
       LET pr   == procs[p]
           call == <<"secrets.delete", "">>
           name == TeamSecretName(pr.req.team)
       IN IF fault \/ ~SecretExists(name)
            THEN /\ procs' = [procs EXCEPT ![p] =
                      Fail(Called(pr, call, IF fault THEN "error" ELSE "notfound"),
                           StatusInternalServerError, "Failed to delete team")]
                 /\ UNCHANGED secrets
            ELSE /\ secrets' = secrets \ {GetSecret(name)}
                 /\ procs' = [procs EXCEPT ![p] =
                      Respond(Called(pr, call, "ok"), StatusOK)]
  /\ UNCHANGED policies /\ Others(p)

\* The limits syncTeamPolicies publishes: those of the team secret's
\* maas/default-tier annotation.
SyncLimits(teamSecret) == GetTierLimits(teamSecret.tier).limits

\* syncTeamPolicies up to its first publish
SyncTeamPolicies(p, teamID, bodyOK) ==
  /\ started /\ procs[p].pc = "idle"
  /\ \E fault \in BOOLEAN :
       LET pr   == Begin("syncTeamPolicies", [NoRequest EXCEPT !.team = teamID])
           call == <<"secrets.get", "">>
           name == TeamSecretName(teamID)
       IN procs' = [procs EXCEPT ![p] =
            IF ~bodyOK THEN Fail(pr, StatusBadRequest, "validation")
            ELSE IF fault \/ ~SecretExists(name)
              THEN TeamNotFound(pr, call, fault)
            ELSE CreateTeamRateLimitPolicies(Called(pr, call, "ok"),
                                             SyncLimits(GetSecret(name)))]
  /\ UNCHANGED <<secrets, policies>> /\ Others(p)

(***************************************************************************)
(* API-key handlers (main.go): createTeamKey, deleteKey.                   *)
(***************************************************************************)
KeysInFlight ==
  Cardinality({q \in Procs : procs[q].pc \in {"ck_list", "ck_create"}})

\* A createTeamKey that asks every team for a prior key.
NeedsMembership_Always(teamID) == TRUE

\* createTeamKey: "For non-default teams, validate membership from existing
\* API keys".
NeedsMembership(teamID) == teamID # DefaultTeam

\* createTeamKey up to the membership decision
CreateTeamKey(p, req) ==
  /\ started /\ procs[p].pc = "idle"
  /\ nextToken + KeysInFlight < MaxTokens
  /\ \E fault \in BOOLEAN :
       LET pr   == Begin("createTeamKey", req)
           call == <<"secrets.get", "">>
       IN procs' = [procs EXCEPT ![p] =
         IF req.user = "" THEN Fail(pr, StatusBadRequest, "validation")
         ELSE IF fault \/ ~SecretExists(TeamSecretName(req.team))
           THEN TeamNotFound(pr, call, fault)
         ELSE IF NeedsMembership(req.team)
           THEN [Called(pr, call, "ok") EXCEPT !.pc = "ck_list"]
         ELSE [Called(pr, call, "ok") EXCEPT
                 !.pc = "ck_create", !.member = DefaultTeamMember(req.user)]]
  /\ UNCHANGED <<secrets, policies>> /\ Others(p)

\* A membership check that accepts an empty list.
NotAMember_Never(items) == FALSE

\* validateTeamMembershipFromAPIKey: len(secrets.Items) == 0
NotAMember(items) == items = {}

\* Stands for the item where the list is empty (the check fails first).
NoSecret == [TeamConfigSecret(NoRequest) EXCEPT !.name = <<>>, !.rtype = ""]

\* validateTeamMembershipFromAPIKey: the List and the item it takes
ValidateMembership(p) ==
  /\ procs[p].pc = "ck_list"
  /\ LET pr    == procs[p]
         call  == <<"secrets.list", "">>
         items == UserTeamKeySecrets(pr.req.team, pr.req.user)
     IN \E fault \in BOOLEAN :
        \E item \in (IF items = {} THEN {NoSecret} ELSE items) :
          procs' = [procs EXCEPT ![p] =
            IF fault \/ NotAMember(items)
              THEN Fail(Called(pr, call, IF fault THEN "error" ELSE "empty"),
                        StatusForbidden, "User is not a member of this team")
              ELSE [Called(pr, call, "ok") EXCEPT
                      !.pc = "ck_create",
                      !.member = MemberFromSecret(pr.req.team, pr.req.user, item)]]
  /\ UNCHANGED <<secrets, policies>> /\ Others(p)

\* The limits createTeamKey answers with.
CreateTeamKeyResponse(req, teamMember) ==
  [TokenLimit   |-> teamMember.TokenLimit,
   RequestLimit |-> teamMember.RequestLimit,
   TimeWindow   |-> teamMember.TimeWindow]

\* generateSecureToken, createEnhancedKeySecret and the response
CreateKeySecret(p) ==
  /\ procs[p].pc = "ck_create"
  /\ \E fault \in {"none", "rand", "create"} :
       LET pr     == procs[p]
           call   == <<"secrets.create", "">>
           apiKey == nextToken + 1
           secret == EnhancedKeySecret(pr.req.team, pr.req, apiKey, pr.member)
       IN IF fault = "rand"
            THEN /\ procs' = [procs EXCEPT ![p] =
                      Fail(Called(pr, <<"rand.read", "">>, "error"),
                           StatusInternalServerError, "Failed to generate API key")]
                 /\ UNCHANGED <<secrets, nextToken>>
          ELSE IF fault = "create" \/ SecretExists(secret.name)
            THEN /\ procs' = [procs EXCEPT ![p] =
                      Fail(Called(pr, call, IF fault = "create" THEN "error"
                                                              ELSE "exists"),
                           StatusInternalServerError, "Failed to create API key")]
                 /\ UNCHANGED <<secrets, nextToken>>
          ELSE /\ secrets' = secrets \cup {secret}
               /\ nextToken' = apiKey
               /\ procs' = [procs EXCEPT ![p] =
                    Respond([Called(pr, call, "ok") EXCEPT
                               !.apiKey = apiKey, !.target = secret.name,
                               !.wrote = TRUE,
                               !.resp = CreateTeamKeyResponse(pr.req, pr.member)],
                            StatusOK)]
  /\ UNCHANGED <<envDefaultTier, started, policies, resolver, startup>>
  /\ TrackCreated(p)

\* deleteKey (delete by presented secret) up to its List
DeleteKey(p, key) ==
  /\ started /\ procs[p].pc = "idle"
  /\ LET pr    == Begin("deleteKey", [NoRequest EXCEPT !.key = key])
         call  == <<"secrets.list", "">>
         items == SecretsByKey(key)
     IN \/ /\ key = 0
           /\ procs' = [procs EXCEPT ![p] =
                Fail(pr, StatusBadRequest, "validation")]
        \/ /\ key # 0
           /\ procs' = [procs EXCEPT ![p] =
                Fail(Called(pr, call, "error"), StatusInternalServerError,
                     "Failed to find API key")]
        \/ /\ key # 0 /\ items = {}
           /\ procs' = [procs EXCEPT ![p] =
                Fail(Called(pr, call, "empty"), StatusNotFound,
                     "API key not found")]
        \/ /\ key # 0
           /\ \E item \in items :
                procs' = [procs EXCEPT ![p] =
                  [Called(pr, call, "ok") EXCEPT
                     !.pc = "dk_delete", !.target = item.name]]
  /\ UNCHANGED <<secrets, policies>> /\ Others(p)

\* Delete of the secret found, and the response
DeleteKeySecret(p) ==
  /\ procs[p].pc = "dk_delete"
  /\ \E fault \in BOOLEAN :
       LET pr   == procs[p]
           call == <<"secrets.delete", "">>
       IN IF fault \/ ~SecretExists(pr.target)
            THEN /\ procs' = [procs EXCEPT ![p] =
                      Fail(Called(pr, call, IF fault THEN "error" ELSE "notfound"),
                           StatusInternalServerError, "Failed to delete API key")]
                 /\ UNCHANGED secrets
            ELSE /\ secrets' = secrets \ {GetSecret(pr.target)}
                 /\ procs' = [procs EXCEPT ![p] =
                      Respond(Called(pr, call, "ok"), StatusOK)]
  /\ UNCHANGED policies /\ Others(p)

\* updateKey: "Update annotations based on request"; a body without a
\* usable field updates nothing.
UpdatedSecret_DropsOwner(secret, body) ==
  [secret EXCEPT !.user = "", !.fp = <<>>,
                 !.status = IF "status" \in body.has THEN body.status ELSE @]

UpdatedSecret(secret, body) ==
  [secret EXCEPT
     !.tokenLimit   = IF "token_limit" \in body.has
                        THEN FormatInt(body.token_limit) ELSE @,
     !.requestLimit = IF "request_limit" \in body.has
                        THEN FormatInt(body.request_limit) ELSE @,
     !.timeWindow   = IF "time_window" \in body.has THEN body.time_window ELSE @,
     !.status       = IF "status" \in body.has THEN body.status ELSE @]

UpdateFields == {"token_limit", "request_limit", "time_window", "status"}

\* updateKey up to its Update: the secret is fetched by the name given,
\* whatever kind of secret it is.
UpdateKey(p, name, body) ==
  /\ started /\ procs[p].pc = "idle"
  /\ \E fault \in BOOLEAN :
       LET pr   == Begin("updateKey", [NoRequest EXCEPT !.name = name, !.body = body])
           call == <<"secrets.get", "">>
       IN procs' = [procs EXCEPT ![p] =
         IF fault \/ ~SecretExists(name)
           THEN Fail(Called(pr, call, IF fault THEN "error" ELSE "notfound"),
                     StatusNotFound, "API key not found")
         ELSE IF body.has \cap UpdateFields = {}
           THEN Fail(Called(pr, call, "ok"), StatusBadRequest,
                     "No valid updates provided")
         ELSE [Called(pr, call, "ok") EXCEPT !.pc = "uk_update", !.target = name]]
  /\ UNCHANGED <<secrets, policies>> /\ Others(p)

\* "Save updated secret", and the response
UpdateKeySecret(p) ==
  /\ procs[p].pc = "uk_update"
  /\ \E fault \in BOOLEAN :
       LET pr   == procs[p]
           call == <<"secrets.update", "">>
       IN IF fault \/ ~SecretExists(pr.target)
            THEN /\ procs' = [procs EXCEPT ![p] =
                      Fail(Called(pr, call, IF fault THEN "error" ELSE "notfound"),
                           StatusInternalServerError, "Failed to update API key")]
                 /\ UNCHANGED secrets
            ELSE /\ secrets' = (secrets \ {GetSecret(pr.target)}) \cup
                      {UpdatedSecret(GetSecret(pr.target), pr.req.body)}
                 /\ procs' = [procs EXCEPT ![p] =
                      Respond([Called(pr, call, "ok") EXCEPT !.wrote = TRUE],
                              StatusOK)]
  /\ UNCHANGED policies /\ Others(p)

\* deleteTeamKey up to its Delete: any secret of that name that carries a
\* maas/team-id label passes.
DeleteTeamKey(p, name) ==
  /\ started /\ procs[p].pc = "idle"
  /\ \E fault \in BOOLEAN :
       LET pr   == Begin("deleteTeamKey", [NoRequest EXCEPT !.name = name])
           call == <<"secrets.get", "">>
       IN procs' = [procs EXCEPT ![p] =
         IF fault \/ ~SecretExists(name)
           THEN Fail(Called(pr, call, IF fault THEN "error" ELSE "notfound"),
                     StatusNotFound, "API key not found")
         ELSE IF GetSecret(name).team = ""
           THEN Fail(Called(pr, call, "ok"), StatusBadRequest,
                     "API key is not associated with a team")
         ELSE [Called(pr, call, "ok") EXCEPT !.pc = "dtk_delete", !.target = name]]
  /\ UNCHANGED <<secrets, policies>> /\ Others(p)

\* "Delete the key secret", and the response
DeleteTeamKeySecret(p) ==
  /\ procs[p].pc = "dtk_delete"
  /\ \E fault \in BOOLEAN :
       LET pr   == procs[p]
           call == <<"secrets.delete", "">>
       IN IF fault \/ ~SecretExists(pr.target)
            THEN /\ procs' = [procs EXCEPT ![p] =
                      Fail(Called(pr, call, IF fault THEN "error" ELSE "notfound"),
                           StatusInternalServerError, "Failed to delete API key")]
                 /\ UNCHANGED secrets
            ELSE /\ secrets' = secrets \ {GetSecret(pr.target)}
                 /\ procs' = [procs EXCEPT ![p] =
                      Respond(Called(pr, call, "ok"), StatusOK)]
  /\ UNCHANGED policies /\ Others(p)

\* getTeamMembersFromAPIKeys: one member per maas/user-id label among the
\* key secrets of the team, whatever their maas/status.
getTeamMembersFromAPIKeys(teamID) ==
  {s.user : s \in {k \in TeamKeySecrets(teamID) : k.user # ""}}

\* listTeamMembers
ListTeamMembers(p, teamID) ==
  /\ started /\ procs[p].pc = "idle"
  /\ \E fault \in {"none", "get", "list"} :
       LET pr == Begin("listTeamMembers", [NoRequest EXCEPT !.team = teamID])
           get == <<"secrets.get", "">>
           list == <<"secrets.list", "">>
       IN procs' = [procs EXCEPT ![p] =
         IF fault = "get" \/ ~SecretExists(TeamSecretName(teamID))
           THEN TeamNotFound(pr, get, fault = "get")
         ELSE IF fault = "list"
           THEN Fail(Called(Called(pr, get, "ok"), list, "error"),
                     StatusInternalServerError, "Failed to get team members")
         ELSE Respond([Called(Called(pr, get, "ok"), list, "ok") EXCEPT
                         !.members = getTeamMembersFromAPIKeys(teamID)],
                      StatusOK)]
  /\ UNCHANGED <<secrets, policies>> /\ Others(p)

\* getTeamAPIKeysDetailed: the names of the key secrets of the team.
getTeamAPIKeysDetailed(teamID) == {s.name : s \in TeamKeySecrets(teamID)}

\* listTeamKeys
ListTeamKeys(p, teamID) ==
  /\ started /\ procs[p].pc = "idle"
  /\ \E fault \in {"none", "get", "list"} :
       LET pr == Begin("listTeamKeys", [NoRequest EXCEPT !.team = teamID])
           get == <<"secrets.get", "">>
           list == <<"secrets.list", "">>
       IN procs' = [procs EXCEPT ![p] =
         IF fault = "get" \/ ~SecretExists(TeamSecretName(teamID))
           THEN TeamNotFound(pr, get, fault = "get")
         ELSE IF fault = "list"
           THEN Fail(Called(Called(pr, get, "ok"), list, "error"),
                     StatusInternalServerError, "Failed to get team keys")
         ELSE Respond([Called(Called(pr, get, "ok"), list, "ok") EXCEPT
                         !.keys = getTeamAPIKeysDetailed(teamID)],
                      StatusOK)]
  /\ UNCHANGED <<secrets, policies>> /\ Others(p)

\* getTeamPolicies: policyName := team-%s-rate-limits
RateLimitName(teamID) == <<"team", teamID, "rate", "limits">>

\* getTeamPolicies: the team secret is fetched twice, and the answer names
\* the policy without a look at the policy store.
GetTeamPolicies(p, teamID) ==
  /\ started /\ procs[p].pc = "idle"
  /\ \E fault \in {"none", "validate", "get"} :
       LET pr   == Begin("getTeamPolicies", [NoRequest EXCEPT !.team = teamID])
           call == <<"secrets.get", "">>
           name == TeamSecretName(teamID)
       IN procs' = [procs EXCEPT ![p] =
         IF fault = "validate" \/ ~SecretExists(name)
           THEN TeamNotFound(pr, call, fault = "validate")
         ELSE IF fault = "get"
           THEN TeamNotFound(Called(pr, call, "ok"), call, TRUE)
         ELSE Respond([Called(Called(pr, call, "ok"), call, "ok") EXCEPT
                         !.limits = GetTierLimits(GetSecret(name).tier).limits,
                         !.rateLimitName = RateLimitName(teamID)],
                      StatusOK)]
  /\ UNCHANGED <<secrets, policies>> /\ Others(p)

\* The response is written and the handler returns.
Return(p) ==
  /\ procs[p].pc = "done"
  /\ procs' = [procs EXCEPT ![p] = Idle]
  /\ UNCHANGED <<secrets, policies>> /\ Others(p)

(***************************************************************************)
(* Startup (main): createDefaultTeamOnStartup, before the routes are       *)
(* served.  The default team publishes no policy.                          *)
(***************************************************************************)
DefaultTeamRequest ==
  [NoRequest EXCEPT !.team = DefaultTeam, !.teamName = "Default Team",
                    !.tier = getEnvOrDefault(defaultTeamTier, GetDefaultTier)]

\* The err of main's call of createDefaultTeamOnStartup, with the store
\* calls behind it; main logs it and goes on to serve.
NoStartup == [ran |-> FALSE, err |-> "", calls |-> <<>>]

StartupResult(err, calls) == [ran |-> TRUE, err |-> err, calls |-> calls]

\* createDefaultTeamOnStartup and, where the Get did not find the team,
\* createTeamInternal: validation, the existence check, the team secret
\* and the publish of the kinds that are not skipped.
createDefaultTeamOnStartup ==
  /\ ~started /\ ~startup.ran
  /\ \E getFault \in BOOLEAN, checkFault \in BOOLEAN, createFault \in BOOLEAN :
       LET req    == DefaultTeamRequest
           there  == SecretExists(TeamSecretName(DefaultTeam))
           found(fault) == IF fault THEN "error"
                           ELSE IF there THEN "ok" ELSE "notfound"
           get    == <<<<"secrets.get", "">>, found(getFault)>>
           check  == <<<<"secrets.get", "">>, found(checkFault)>>
           create == <<<<"secrets.create", "">>,
                       IF createFault THEN "error"
                       ELSE IF there THEN "exists" ELSE "ok">>
           limits == CreateTeamLimits(req)
           kinds  == {kind \in Kinds : ~SkipPolicy(req.team, kind, limits)}
       IN IF ~getFault /\ there
            THEN /\ startup' = StartupResult("", <<get>>)
                 /\ UNCHANGED <<secrets, policies>>
          ELSE IF ~validateTeamRequest(req)
            THEN /\ startup' = StartupResult("team validation failed", <<get>>)
                 /\ UNCHANGED <<secrets, policies>>
          ELSE IF TeamAlreadyExists(checkFault, req.team)
            THEN /\ startup' = StartupResult("team already exists",
                                             <<get, check>>)
                 /\ UNCHANGED <<secrets, policies>>
          ELSE IF createFault \/ there
            THEN /\ startup' = StartupResult("failed to create team secret",
                                             <<get, check, create>>)
                 /\ UNCHANGED <<secrets, policies>>
          ELSE /\ startup' = StartupResult("", <<get, check, create>>)
               /\ secrets' = secrets \cup {TeamConfigSecret(req)}
               /\ policies' = policies \cup
                    {PolicyManifest(req.team, kind, limits, 1) : kind \in kinds}
  /\ UNCHANGED <<envDefaultTier, started, procs, nextToken, resolver, created>>

\* main: the result of the startup is logged, and r.Run serves the routes.
Run ==
  /\ ~started /\ startup.ran
  /\ started' = TRUE
  /\ startup' = NoStartup
  /\ UNCHANGED <<envDefaultTier, secrets, policies, procs, nextToken,
                 resolver, created>>

\* The process ends and main starts again; the two stores are the
\* cluster's and stay as they are, a handler under way is gone.
Restart ==
  /\ started
  /\ started' = FALSE
  /\ procs' = [p \in Procs |-> Idle]
  /\ UNCHANGED <<envDefaultTier, secrets, policies, nextToken, resolver,
                 created, startup>>

(***************************************************************************)
(* The limit resolver on drawn inputs.                                     *)
(***************************************************************************)
ResolverIdle == [pc |-> "idle", arg |-> "", tier |-> "", depth |-> 0,
                 limits |-> NoLimits, tokenLimit |-> 0, requestLimit |-> 0,
                 timeWindow |-> "", second |-> "", again |-> NoLimits]

TierNames == KnownTiers \cup {"", "gold", "bogus"}
DefaultTierSettings == {"", "premium", "gold"}
TokenLimitInputs == {-5, -1, 0, 7}
RequestLimitInputs == {-2, -1, 0, 3}
TimeWindowInputs == {"", "24h"}

\* One activation of GetTierLimits
GetTierLimitsCall ==
  /\ resolver.pc = "call"
  /\ LET frame == GetTierLimitsFrame(resolver.tier, resolver.depth) IN
     resolver' = [resolver EXCEPT !.pc = frame.pc, !.tier = frame.tier,
                                  !.depth = frame.depth, !.limits = frame.limits]
  /\ UNCHANGED <<envDefaultTier, started, secrets, policies,
                 procs, nextToken, created, startup>>

\* The overrides of createTeam on the limits returned
OverrideLimits ==
  /\ resolver.pc = "return"
  /\ resolver' = [resolver EXCEPT
       !.pc = "done",
       !.limits = ApplyTeamOverrides(@, resolver.tokenLimit,
                                     resolver.requestLimit, resolver.timeWindow)]
  /\ UNCHANGED <<envDefaultTier, started, secrets, policies,
                 procs, nextToken, created, startup>>

\* Whether a lookup of `tier` hands out the object an earlier lookup of
\* `earlier` handed out.  Every return of GetTierLimits is a new
\* &TierLimits{...}, so no two lookups share an object.
SharesObject_SameTier(tier, earlier) == tier = earlier

SharesObject(tier, earlier) == FALSE

\* A later GetTierLimits of a known tier, after createTeam has written its
\* overrides through the pointer the first lookup returned.
GetTierLimitsAgain ==
  /\ resolver.pc = "done"
  /\ \E tier \in KnownTiers :
       resolver' = [resolver EXCEPT
         !.pc = "again", !.second = tier,
         !.again = IF SharesObject(tier, resolver.tier)
                     THEN resolver.limits
                     ELSE GetTierLimits(tier).limits]
  /\ UNCHANGED <<envDefaultTier, started, secrets, policies,
                 procs, nextToken, created, startup>>

(***************************************************************************)
(* Requests drawn by the specifications.                                   *)
(***************************************************************************)
TeamReq(teamID, teamName, tier, tokenLimit, requestLimit, timeWindow) ==
  [NoRequest EXCEPT !.team = teamID, !.teamName = teamName, !.tier = tier,
                    !.tokenLimit = tokenLimit, !.requestLimit = requestLimit,
                    !.timeWindow = timeWindow]

CreateTeamRequests ==
  { TeamReq("t1", "Team One", "standard", 0, 0, ""),
    TeamReq("t1", "Team One", "standard", 7, 0, "1h"),
    TeamReq("t1", "Team One", "free", 0, 3, ""),
    TeamReq("t1", "Team One", "unlimited", 0, 0, ""),
    TeamReq("t1", "Team One", "unlimited", 7, 0, ""),
    TeamReq(DefaultTeam, "Default Team", "premium", 7, 0, ""),
    TeamReq("t1", "Team One", "gold", 0, 0, ""),
    TeamReq("t1", "", "standard", 0, 0, ""),
    TeamReq("x-", "Team X", "standard", 0, 0, "") }

KeyReq(teamID, userID, tokenLimit) ==
  [NoRequest EXCEPT !.team = teamID, !.user = userID, !.tokenLimit = tokenLimit]

CreateKeyRequests ==
  { KeyReq(DefaultTeam, "u1", 0), KeyReq(DefaultTeam, "u2", 500),
    KeyReq("t1", "u1", 0), KeyReq("t1", "u2", 0), KeyReq(DefaultTeam, "", 0) }

(***************************************************************************)
(* Specifications.                                                         *)
(***************************************************************************)
Init ==
  /\ envDefaultTier = ""
  /\ started = FALSE
  /\ secrets = {}
  /\ policies = {}
  /\ procs = [p \in Procs |-> Idle]
  /\ nextToken = 0
  /\ created = {}
  /\ resolver = ResolverIdle
  /\ startup = NoStartup

Step(p) ==
  \/ \E req \in CreateTeamRequests : CreateTeam(p, req)
  \/ CreateTeamSecret(p)
  \/ PolicyCreate(p)
  \/ PolicyGet(p)
  \/ PolicyUpdate(p)
  \/ CreateTeamRollback(p)
  \/ \E teamID \in TeamIds : DeleteTeam(p, teamID)
  \/ DeleteTeamPolicy(p)
  \/ DeleteAllTeamKeys(p)
  \/ DeleteTeamSecret(p)
  \/ \E teamID \in TeamIds, bodyOK \in BOOLEAN : SyncTeamPolicies(p, teamID, bodyOK)
  \/ \E req \in CreateKeyRequests : CreateTeamKey(p, req)
  \/ ValidateMembership(p)
  \/ CreateKeySecret(p)
  \/ \E key \in 0..MaxTokens : DeleteKey(p, key)
  \/ DeleteKeySecret(p)
  \/ Return(p)

\* One request at a time.
Next == createDefaultTeamOnStartup \/ Run \/ Step("A")

Spec == Init /\ [][Next]_vars

\* The createTeam requests of two callers, interleaved at the store calls.
ConcTeamRequests ==
  { TeamReq("t1", "Team One", "standard", 0, 0, ""),
    TeamReq("t1", "Team Uno", "free", 0, 3, ""),
    TeamReq(DefaultTeam, "Default Team", "premium", 7, 0, "") }

StepConc(p) ==
  \/ \E req \in ConcTeamRequests : CreateTeam(p, req)
  \/ CreateTeamSecret(p)
  \/ PolicyCreate(p)
  \/ PolicyGet(p)
  \/ PolicyUpdate(p)
  \/ CreateTeamRollback(p)
  \/ Return(p)

NextConc == createDefaultTeamOnStartup \/ Run \/ \E p \in Procs : StepConc(p)

SpecConc == Init /\ [][NextConc]_vars

\* The team and policy handlers on team t1, one request at a time.
PoliciesTeamRequests ==
  { TeamReq("t1", "Team One", "standard", 0, 0, ""),
    TeamReq("t1", "Team One", "free", 0, 3, "1h"),
    TeamReq("t1", "Team One", "unlimited", 7, 0, ""),
    TeamReq("t1", "Team One", "unlimited", 0, 0, "") }

StepPolicies(p) ==
  \/ \E req \in PoliciesTeamRequests : CreateTeam(p, req)
  \/ CreateTeamSecret(p)
  \/ PolicyCreate(p)
  \/ PolicyGet(p)
  \/ PolicyUpdate(p)
  \/ CreateTeamRollback(p)
  \/ \E bodyOK \in BOOLEAN : SyncTeamPolicies(p, "t1", bodyOK)
  \/ GetTeamPolicies(p, "t1")
  \/ DeleteTeam(p, "t1")
  \/ DeleteTeamPolicy(p)
  \/ DeleteAllTeamKeys(p)
  \/ DeleteTeamSecret(p)
  \/ Return(p)

NextPolicies == createDefaultTeamOnStartup \/ Run \/ StepPolicies("A")

SpecPolicies == Init /\ [][NextPolicies]_vars

\* A handler that has begun goes on: every store call it makes returns,
\* with a result or with an error.
SpecPoliciesLive == SpecPolicies /\ WF_vars(StepPolicies("A"))

\* Two callers publish for team t1 at the same time, one call each: a
\* syncTeamPolicies against a syncTeamPolicies or against a createTeam.
\* The team is either not there yet, or was created by SyncTeamRequest with
\* its policies published.
SyncTeamRequest == TeamReq("t1", "Team One", "free", 0, 3, "1h")

SyncTeamPublished ==
  {PolicyManifest("t1", kind, CreateTeamLimits(SyncTeamRequest), 1) :
     kind \in Kinds}

InitSync ==
  /\ envDefaultTier = ""
  /\ started = TRUE
  /\ \E teamThere \in BOOLEAN :
       /\ secrets = {TeamConfigSecret(DefaultTeamRequest)} \cup
                    (IF teamThere THEN {TeamConfigSecret(SyncTeamRequest)}
                                  ELSE {})
       /\ policies = IF teamThere THEN SyncTeamPublished ELSE {}
       /\ created = IF teamThere THEN {"t1"} ELSE {}
  /\ procs = [p \in Procs |-> Idle]
  /\ nextToken = 0
  /\ resolver = ResolverIdle
  /\ startup = NoStartup

StepSync(p) ==
  \/ CreateTeam(p, SyncTeamRequest)
  \/ CreateTeamSecret(p)
  \/ PolicyCreate(p)
  \/ PolicyGet(p)
  \/ PolicyUpdate(p)
  \/ CreateTeamRollback(p)
  \/ SyncTeamPolicies(p, "t1", TRUE)

NextSync == \E p \in Procs : StepSync(p)

SpecSync == InitSync /\ [][NextSync]_vars

\* Two callers on the default team at the same time, one call each: a
\* createTeamKey against a deleteTeam.  The team is there, with or without
\* a key record of another user.
RaceKeyRequest == KeyReq(DefaultTeam, "u1", 0)

RaceEarlierKey ==
  EnhancedKeySecret(DefaultTeam, KeyReq(DefaultTeam, "u2", 0), 1,
                    DefaultTeamMember("u2"))

InitKeyRace ==
  /\ envDefaultTier = ""
  /\ started = TRUE
  /\ \E keyThere \in BOOLEAN :
       /\ secrets = {TeamConfigSecret(DefaultTeamRequest)} \cup
                    (IF keyThere THEN {RaceEarlierKey} ELSE {})
       /\ nextToken = IF keyThere THEN 1 ELSE 0
  /\ policies = {}
  /\ created = {}
  /\ procs = [p \in Procs |-> Idle]
  /\ resolver = ResolverIdle
  /\ startup = NoStartup

StepKeyRace(p) ==
  \/ CreateTeamKey(p, RaceKeyRequest)
  \/ CreateKeySecret(p)
  \/ DeleteTeam(p, DefaultTeam)
  \/ DeleteTeamPolicy(p)
  \/ DeleteAllTeamKeys(p)
  \/ DeleteTeamSecret(p)

NextKeyRace == \E p \in Procs : StepKeyRace(p)

SpecKeyRace == InitKeyRace /\ [][NextKeyRace]_vars

\* Two callers on team t1 at the same time, one call each: a
\* syncTeamPolicies against a deleteTeam.  The team was created by
\* SyncTeamRequest; its policies are published, or were removed since.
InitPolicyRace ==
  /\ envDefaultTier = ""
  /\ started = TRUE
  /\ secrets = {TeamConfigSecret(DefaultTeamRequest),
                TeamConfigSecret(SyncTeamRequest)}
  /\ policies \in {SyncTeamPublished, {}}
  /\ created = {"t1"}
  /\ procs = [p \in Procs |-> Idle]
  /\ nextToken = 0
  /\ resolver = ResolverIdle
  /\ startup = NoStartup

StepPolicyRace(p) ==
  \/ SyncTeamPolicies(p, "t1", TRUE)
  \/ PolicyCreate(p)
  \/ PolicyGet(p)
  \/ PolicyUpdate(p)
  \/ DeleteTeam(p, "t1")
  \/ DeleteTeamPolicy(p)
  \/ DeleteAllTeamKeys(p)
  \/ DeleteTeamSecret(p)

NextPolicyRace == \E p \in Procs : StepPolicyRace(p)

SpecPolicyRace == InitPolicyRace /\ [][NextPolicyRace]_vars

\* Two callers on team t1 at the same time, any number of calls each:
\* createTeam and deleteTeam.  Each caller has its own team_name, so the
\* Team record in the store tells which caller's createTeam wrote it.
RollbackRequest(p) ==
  TeamReq("t1", IF p = "A" THEN "Team One" ELSE "Team Uno",
          "unlimited", 7, 0, "")

StepRollbackRace(p) ==
  \/ CreateTeam(p, RollbackRequest(p))
  \/ CreateTeamSecret(p)
  \/ PolicyCreate(p)
  \/ PolicyGet(p)
  \/ PolicyUpdate(p)
  \/ CreateTeamRollback(p)
  \/ DeleteTeam(p, "t1")
  \/ DeleteTeamPolicy(p)
  \/ DeleteAllTeamKeys(p)
  \/ DeleteTeamSecret(p)
  \/ Return(p)

NextRollbackRace ==
  createDefaultTeamOnStartup \/ Run \/ \E p \in Procs : StepRollbackRace(p)

SpecRollbackRace == Init /\ [][NextRollbackRace]_vars

\* The key-record handlers on the default team, one request at a time.
KeysKeyRequests ==
  { KeyReq(DefaultTeam, "u1", 0), KeyReq(DefaultTeam, "u1", 500),
    KeyReq(DefaultTeam, "u2", 0), KeyReq(DefaultTeam, "", 0) }

KeysTeamRequests == {TeamReq(DefaultTeam, "Default Team", "premium", 7, 0, "")}

UpdateBodies ==
  { NoUpdate,
    [NoUpdate EXCEPT !.has = {"status"}, !.status = "inactive"],
    [NoUpdate EXCEPT !.has = {"token_limit", "request_limit", "time_window",
                              "status"},
                     !.token_limit = 5, !.request_limit = 3,
                     !.time_window = "1h", !.status = "suspended"] }

\* The names a caller can put in /keys/:key_name: those of the secrets the
\* handlers write, and one that names nothing.
KeyNames ==
  {TeamSecretName(DefaultTeam), <<"apikey", "u1", "t1", <<0>> >>} \cup
  {KeySecretName(userID, DefaultTeam, Sha256Hex(apiKey)) :
     userID \in Users, apiKey \in 1..MaxTokens}

StepKeys(p) ==
  \/ \E bodyOK \in BOOLEAN : SyncTeamPolicies(p, DefaultTeam, bodyOK)
  \/ \E req \in KeysKeyRequests : CreateTeamKey(p, req)
  \/ CreateKeySecret(p)
  \/ \E name \in KeyNames, body \in UpdateBodies : UpdateKey(p, name, body)
  \/ UpdateKeySecret(p)
  \/ \E name \in KeyNames : DeleteTeamKey(p, name)
  \/ DeleteTeamKeySecret(p)
  \/ \E key \in 0..MaxTokens : DeleteKey(p, key)
  \/ DeleteKeySecret(p)
  \/ ListTeamMembers(p, DefaultTeam)
  \/ ListTeamKeys(p, DefaultTeam)
  \/ \E req \in KeysTeamRequests : CreateTeam(p, req)
  \/ CreateTeamSecret(p)
  \/ DeleteTeam(p, DefaultTeam)
  \/ DeleteTeamPolicy(p)
  \/ DeleteAllTeamKeys(p)
  \/ DeleteTeamSecret(p)
  \/ Return(p)

NextKeys == createDefaultTeamOnStartup \/ Run \/ StepKeys("A")

SpecKeys == Init /\ [][NextKeys]_vars

\* The process started any number of times, and between two starts the
\* handlers that write or remove the Team record of the default team, and
\* createTeamKey for the keys of the team.
StepStartup(p) ==
  \/ \E req \in KeysTeamRequests : CreateTeam(p, req)
  \/ CreateTeamSecret(p)
  \/ CreateTeamKey(p, RaceKeyRequest)
  \/ CreateKeySecret(p)
  \/ DeleteTeam(p, DefaultTeam)
  \/ DeleteTeamPolicy(p)
  \/ DeleteAllTeamKeys(p)
  \/ DeleteTeamSecret(p)
  \/ Return(p)

NextStartup ==
  createDefaultTeamOnStartup \/ Run \/ Restart \/ StepStartup("A")

SpecStartup == Init /\ [][NextStartup]_vars

InitResolve ==
  /\ envDefaultTier \in DefaultTierSettings
  /\ started = FALSE
  /\ secrets = {}
  /\ policies = {}
  /\ procs = [p \in Procs |-> Idle]
  /\ nextToken = 0
  /\ created = {}
  /\ \E tier \in TierNames, tokenLimit \in TokenLimitInputs,
        requestLimit \in RequestLimitInputs, timeWindow \in TimeWindowInputs :
       resolver = [ResolverIdle EXCEPT
                     !.pc = "call", !.arg = tier, !.tier = tier,
                     !.tokenLimit = tokenLimit, !.requestLimit = requestLimit,
                     !.timeWindow = timeWindow]
  /\ startup = NoStartup

NextResolve == GetTierLimitsCall \/ OverrideLimits \/ GetTierLimitsAgain

SpecResolve == InitResolve /\ [][NextResolve]_vars

(***************************************************************************)
(* Properties.  A handler that has answered is at pc = "done"; its calls   *)
(* field lists the store calls it made, each with its outcome.             *)
(***************************************************************************)
Answered(p, op) == procs[p].pc = "done" /\ procs[p].op = op

Outcomes(pr, api) ==
  {pr.calls[i][2] : i \in {j \in DOMAIN pr.calls : pr.calls[j][1][1] = api}}

\* No store call of the handler failed.
NoFault(pr) == \A i \in DOMAIN pr.calls : pr.calls[i][2] # "error"

PublishCalls == {"policy.create", "policy.get", "policy.update"}

\* A publish of the handler returned an error.
PublishError(pr) ==
  \E i \in DOMAIN pr.calls :
    /\ pr.calls[i][1][1] \in PublishCalls
    /\ pr.calls[i][2] \notin {"ok", "exists"}

LastCall(pr) == pr.calls[Len(pr.calls)]

KindPath(pr, kind) ==
  LET at == {i \in DOMAIN pr.calls : pr.calls[i][1][2] = kind}
      RECURSIVE Path(_)
      Path(n) == IF n = 0 THEN <<>>
                 ELSE IF n \in at
                   THEN Append(Path(n - 1), <<pr.calls[n][1][1], pr.calls[n][2]>>)
                   ELSE Path(n - 1)
  IN Path(Len(pr.calls))

PolicyObjects(teamID, kind) ==
  {o \in policies : o.resource = PolicyResource(kind)
                    /\ o.name = PolicyName(teamID, kind)}

\* C2 as stated: for an existing non-default team, a createTeamKey whose
\* membership lookup finds no key record of the (team, user) pair answers
\* 200 and writes the key record of that pair.
C2_FirstKeyAccepted ==
  \A p \in Procs :
    (/\ Answered(p, "createTeamKey") /\ NoFault(procs[p])
     /\ procs[p].req.team # DefaultTeam
     /\ Outcomes(procs[p], "secrets.get") = {"ok"}
     /\ Outcomes(procs[p], "secrets.list") = {"empty"})
      => /\ procs[p].status = StatusOK
         /\ procs[p].wrote
         /\ UserTeamKeySecrets(procs[p].req.team, procs[p].req.user) # {}

\* Nothing of team t is left: no policy object of either kind and no
\* secret carrying the team label.
CleanedUp(teamID) ==
  /\ \A kind \in Kinds : ~PolicyExists(kind, PolicyName(teamID, kind))
  /\ {o \in policies : o.team = teamID} = {}
  /\ {s \in secrets : s.team = teamID} = {}

\* C3 as stated: when deleteTeam answers 200 for a team that createTeam
\* had created, and no store call of deleteTeam failed, no policy object of
\* either kind and no secret with the team's label is left.
C3_FullCleanup ==
  [][\A p \in Procs :
       (/\ procs[p].pc = "dt_team" /\ procs'[p].pc = "done"
        /\ procs'[p].status = StatusOK
        /\ NoFault(procs'[p])
        /\ procs[p].req.team \in created)
         => CleanedUp(procs[p].req.team)']_vars

\* The limits of a Team record: its tier with its stored overrides.
StoredLimits(teamSecret) ==
  ApplyTeamOverrides(GetTierLimits(teamSecret.tier).limits,
                     ParseInt(teamSecret.tokenLimit),
                     ParseInt(teamSecret.requestLimit),
                     teamSecret.timeWindow)

\* C4 as stated: when syncTeamPolicies has answered 200 for a team that
\* createTeam had created, the rate and the window of each policy object
\* that the sync published are those of the Team record's tier with its
\* stored overrides, which createTeam published.
C4_SyncUsesOverrides ==
  \A p \in Procs :
    (/\ Answered(p, "syncTeamPolicies") /\ procs[p].status = StatusOK
     /\ procs[p].req.team \in created)
      => LET teamID == procs[p].req.team
             limits == StoredLimits(GetSecret(TeamSecretName(teamID)))
         IN \A kind \in Kinds :
              (/\ KindPath(procs[p], kind) # <<>>
               /\ PolicyExists(kind, PolicyName(teamID, kind))) =>
                /\ GetPolicy(kind, PolicyName(teamID, kind)).limit
                     = KindLimit(kind, limits)
                /\ GetPolicy(kind, PolicyName(teamID, kind)).window
                     = KindWindow(kind, limits)

\* C5: a syncTeamPolicies on an existing team, none of whose store calls
\* fails, answers 200; for each kind whose limit is finite it leaves exactly
\* one policy object, whose content is a function of the Team record alone
\* (so any number of calls leave what one call leaves, the Team record
\* being untouched by the sync); where the object existed already the call
\* went create (already exists), get, update, and else a single create.
C5_SyncIdempotent ==
  /\ [](\A p \in Procs :
         (/\ Answered(p, "syncTeamPolicies") /\ NoFault(procs[p])
          /\ Outcomes(procs[p], "secrets.get") = {"ok"}
          /\ procs[p].req.team # DefaultTeam)
           => LET teamID == procs[p].req.team
                  limits == SyncLimits(GetSecret(TeamSecretName(teamID)))
              IN /\ procs[p].status = StatusOK
                 /\ \A kind \in Kinds :
                      KindLimit(kind, limits) # Unlimited =>
                        /\ Cardinality(PolicyObjects(teamID, kind)) = 1
                        /\ \E rv \in 1..(Cardinality(Procs) + 1) :
                             PolicyObjects(teamID, kind)
                               = {PolicyManifest(teamID, kind, limits, rv)}
                        /\ KindPath(procs[p], kind) =
                             IF kind \in procs[p].had
                               THEN << <<"policy.create", "exists">>,
                                       <<"policy.get", "ok">>,
                                       <<"policy.update", "ok">> >>
                               ELSE << <<"policy.create", "ok">> >>)
  /\ [][\A p \in Procs :
          (procs'[p].op = "syncTeamPolicies" /\ procs'[p] # procs[p]
           /\ procs'[p].pc # "idle")
            => secrets' = secrets]_vars

\* C5 witness: a sync that found both objects and updated both.
C5_Witness ==
  /\ Answered("A", "syncTeamPolicies") /\ procs["A"].status = StatusOK
  /\ procs["A"].had = Kinds
  /\ \A kind \in Kinds :
       /\ KindPath(procs["A"], kind) = << <<"policy.create", "exists">>,
                                         <<"policy.get", "ok">>,
                                         <<"policy.update", "ok">> >>
       /\ Cardinality(PolicyObjects("t1", kind)) = 1

\* C6 as stated: when createTeam has answered an error, no policy object
\* that this call created is in the policy store.
C6_NoOrphanedPolicy ==
  \A p \in Procs :
    (Answered(p, "createTeam") /\ procs[p].status # StatusOK)
      => \A kind \in Kinds :
           KindPath(procs[p], kind) = << <<"policy.create", "ok">> >>
             => ~PolicyExists(kind, PolicyName(procs[p].req.team, kind))

\* C10 as stated: when createTeam has answered 200, a policy object of a
\* kind exists for the team exactly when the team is not "default" and the
\* effective limit of the kind is not -1.
C10_PolicyIffLimited ==
  \A p \in Procs :
    (Answered(p, "createTeam") /\ procs[p].status = StatusOK)
      => \A kind \in Kinds :
           PolicyExists(kind, PolicyName(procs[p].req.team, kind))
             <=> (/\ procs[p].req.team # DefaultTeam
                  /\ KindLimit(kind, CreateTeamLimits(procs[p].req)) # Unlimited)

\* The secrets that createTeamKey has returned.
IssuedKeys == 1..nextToken
\* The records created with a secret that are still in the store.
KeyRecords(key) == {s \in secrets : s.rtype = "team-key" /\ s.apiKey = key}

\* C7 as stated: of two createTeam calls for the same team that overlapped,
\* both past validation and neither with a failed store call, exactly one
\* has answered 200 and the other 409, and the Team record in the store is
\* the one the 200 call wrote.
C7_OneWinsOtherConflicts ==
  \A p \in Procs : \A q \in Procs \ {p} :
    (/\ Answered(p, "createTeam") /\ Answered(q, "createTeam")
     /\ q \in procs[p].during
     /\ procs[p].req.team = procs[q].req.team
     /\ procs[p].calls # <<>> /\ procs[q].calls # <<>>
     /\ NoFault(procs[p]) /\ NoFault(procs[q]))
      => \E w \in {p, q} : \E l \in {p, q} \ {w} :
           /\ procs[w].status = StatusOK
           /\ procs[l].status = StatusConflict
           /\ {s \in secrets : s.name = TeamSecretName(procs[w].req.team)}
                = {TeamConfigSecret(procs[w].req)}

\* C8: for a secret that createTeamKey returned, a deleteKey none of whose
\* store calls fails finds, while the record created with the secret is in
\* the store, exactly that record, removes it and nothing else and answers
\* 200; once the record is gone it stays gone, and a deleteKey with the
\* secret answers 404 and changes nothing.
C8_RoundTrip ==
  [][\A p \in Procs : \A key \in IssuedKeys :
       /\ (/\ procs[p].pc = "idle" /\ procs'[p].op = "deleteKey"
           /\ procs'[p].req.key = key /\ NoFault(procs'[p]))
            => /\ secrets' = secrets
               /\ IF KeyRecords(key) # {}
                    THEN /\ procs'[p].pc = "dk_delete"
                         /\ Cardinality(KeyRecords(key)) = 1
                         /\ \A s \in KeyRecords(key) : procs'[p].target = s.name
                    ELSE /\ procs'[p].pc = "done"
                         /\ procs'[p].status = StatusNotFound
       /\ (/\ procs[p].pc = "dk_delete" /\ procs[p].req.key = key
           /\ procs'[p].pc = "done" /\ NoFault(procs'[p]))
            => /\ procs'[p].status = StatusOK
               /\ KeyRecords(key) # {}
               /\ secrets' = secrets \ KeyRecords(key)
       /\ KeyRecords(key) = {} => KeyRecords(key)' = {}]_vars

\* C8 witness: the default team stands as startup wrote it, so no
\* deleteTeam has removed keys; a second deleteKey with an issued secret
\* has answered 404.
C8_Witness ==
  /\ Answered("A", "deleteKey") /\ procs["A"].status = StatusNotFound
  /\ procs["A"].req.key \in IssuedKeys
  /\ NoFault(procs["A"])
  /\ SecretExists(TeamSecretName(DefaultTeam))
  /\ GetSecret(TeamSecretName(DefaultTeam)).tier = defaultTeamTier
  /\ GetSecret(TeamSecretName(DefaultTeam)).teamName = "Default Team"
  /\ ParseInt(GetSecret(TeamSecretName(DefaultTeam)).tokenLimit) = 0

\* C9 as stated: for a tier name that is not in the tier table, whatever
\* DEFAULT_TIER is set to, GetTierLimits returns, with the limits of the
\* default tier, after at most one recursive call.
C9_FallbackTerminates ==
  resolver.arg \notin KnownTiers =>
    /\ resolver.pc # "overflow"
    /\ resolver.depth <= 1
    /\ resolver.pc = "return" =>
         /\ GetDefaultTier \in KnownTiers
         /\ resolver.limits = TierTable[GetDefaultTier]

\* C11: whenever the default Team record exists, a createTeamKey on team
\* "default" for a valid user, none of whose store calls fails, answers 200
\* and writes the key record without listing key records, whether or not
\* the user has a key already.
C11_DefaultTeamNeedsNoMembership ==
  \A p \in Procs :
    (/\ Answered(p, "createTeamKey") /\ NoFault(procs[p])
     /\ procs[p].req.team = DefaultTeam
     /\ isValidUserID(procs[p].req.user)
     /\ Outcomes(procs[p], "secrets.get") = {"ok"})
      => /\ procs[p].status = StatusOK
         /\ procs[p].wrote
         /\ Outcomes(procs[p], "secrets.list") = {}
         /\ \E s \in UserTeamKeySecrets(DefaultTeam, procs[p].req.user) :
              s.name = procs[p].target /\ s.apiKey = procs[p].apiKey

\* C11 witness: a second key of the same user on the default team.
C11_Witness ==
  /\ Answered("A", "createTeamKey") /\ procs["A"].status = StatusOK
  /\ procs["A"].req.team = DefaultTeam /\ procs["A"].req.user = "u1"
  /\ Cardinality(UserTeamKeySecrets(DefaultTeam, "u1")) = 2

ActiveMembers(teamID) ==
  {u \in Users : \E s \in UserTeamKeySecrets(teamID, u) : s.status = "active"}

\* C13: the members a listTeamMembers answers with are exactly the users
\* who hold at least one key record of the team with status "active".
C13_MembersAreActiveKeyHolders ==
  \A p \in Procs :
    (Answered(p, "listTeamMembers") /\ procs[p].status = StatusOK)
      => procs[p].members = ActiveMembers(procs[p].req.team)

\* The Team records of the store.
TeamRecords == {s \in secrets : s.rtype = "team-config"}

KeyHandlerOps ==
  {"syncTeamPolicies", "createTeamKey", "updateKey", "deleteTeamKey", "deleteKey"}

\* C14: no step of syncTeamPolicies, createTeamKey, updateKey, deleteTeamKey
\* or deleteKey, whatever its argument, changes a field of a Team record or
\* removes a Team record.
C14_TeamRecordsUntouched ==
  [][\A p \in Procs :
       (procs'[p] # procs[p] /\ procs'[p].op \in KeyHandlerOps)
         => TeamRecords' = TeamRecords]_vars

\* What identifies a record and what it authenticates: everything but the
\* limit, status and alias fields.
Identity(s) ==
  [name |-> s.name, rtype |-> s.rtype, selector |-> s.selector,
   team |-> s.team, user |-> s.user, fp |-> s.fp, apiKey |-> s.apiKey,
   role |-> s.role, tier |-> s.tier, teamName |-> s.teamName,
   models |-> s.models]

C16_ReturnedLimitsAreStored ==
  \A p \in Procs :
    (Answered(p, "createTeamKey") /\ procs[p].status = StatusOK)
      => LET pr     == procs[p]
             stored == GetSecret(pr.target)
         IN /\ SecretExists(pr.target)
            /\ pr.resp.TokenLimit = ParseInt(stored.tokenLimit)
            /\ pr.resp.RequestLimit = ParseInt(stored.requestLimit)
            /\ pr.resp.TimeWindow = stored.timeWindow
            /\ pr.resp.TokenLimit = IF pr.req.tokenLimit # 0
                                      THEN pr.req.tokenLimit
                                      ELSE pr.member.TokenLimit
            /\ pr.resp.RequestLimit = IF pr.req.requestLimit # 0
                                        THEN pr.req.requestLimit
                                        ELSE pr.member.RequestLimit
            /\ pr.resp.TimeWindow = IF pr.req.timeWindow # ""
                                      THEN pr.req.timeWindow
                                      ELSE pr.member.TimeWindow

(***************************************************************************)
(* The overrides of createTeam on the limits of a tier: SpecResolve.       *)
(***************************************************************************)

\* The resolver has applied the overrides drawn to the limits of a tier of
\* the tier table.
Overridden == resolver.pc = "done" /\ resolver.arg \in KnownTiers

\* C17: for every tier, a token_limit or request_limit override of 0 and an
\* empty time_window leave the tier's own value in the limits createTeam
\* publishes, which is neither 0 nor empty.
C17_ZeroIsNoOverride ==
  Overridden =>
    LET tier == TierTable[resolver.arg]
        out  == resolver.limits
    IN /\ resolver.tokenLimit = 0
            => out.TokenLimit = tier.TokenLimit /\ out.TokenLimit # 0
       /\ resolver.requestLimit = 0
            => out.RequestLimit = tier.RequestLimit /\ out.RequestLimit # 0
       /\ resolver.timeWindow = ""
            => /\ out.TokenWindow = tier.TokenWindow /\ out.TokenWindow # ""
               /\ out.RequestWindow = tier.RequestWindow
               /\ out.RequestWindow # ""

\* C17 witness: tier "free" with token_limit 0 beside a request_limit
\* override of 3.
C17_Witness ==
  /\ Overridden /\ resolver.arg = "free"
  /\ resolver.tokenLimit = 0 /\ resolver.requestLimit = 3
  /\ resolver.timeWindow = ""
  /\ resolver.limits.TokenLimit = 2000 /\ resolver.limits.RequestLimit = 3

\* C18: for every tier, a token_limit override alone leaves the request
\* limit, both windows and the model list at the tier's values, and a
\* request_limit override alone leaves the token limit, both windows and
\* the model list at the tier's values.
C18_NoCrossFieldLeakage ==
  Overridden =>
    LET tier == TierTable[resolver.arg]
        out  == resolver.limits
    IN /\ (resolver.requestLimit = 0 /\ resolver.timeWindow = "")
            => /\ out.RequestLimit = tier.RequestLimit
               /\ out.TokenWindow = tier.TokenWindow
               /\ out.RequestWindow = tier.RequestWindow
               /\ out.ModelsAllowed = tier.ModelsAllowed
       /\ (resolver.tokenLimit = 0 /\ resolver.timeWindow = "")
            => /\ out.TokenLimit = tier.TokenLimit
               /\ out.TokenWindow = tier.TokenWindow
               /\ out.RequestWindow = tier.RequestWindow
               /\ out.ModelsAllowed = tier.ModelsAllowed

\* C18 witness: tier "premium" with a token_limit override of 7 and nothing
\* else.
C18_Witness ==
  /\ Overridden /\ resolver.arg = "premium"
  /\ resolver.tokenLimit = 7 /\ resolver.requestLimit = 0
  /\ resolver.timeWindow = ""
  /\ resolver.limits.TokenLimit = 7 /\ resolver.limits.RequestLimit = 600

\* C19: where the tier's limit of a kind is -1, the limit createTeam
\* publishes stays -1 under an override that is 0 or negative, and is the
\* override when the override is positive.
C19_UnlimitedSurvives ==
  Overridden =>
    LET tier == TierTable[resolver.arg]
        out  == resolver.limits
    IN /\ tier.TokenLimit = Unlimited
            => out.TokenLimit = IF resolver.tokenLimit > 0
                                  THEN resolver.tokenLimit ELSE Unlimited
       /\ tier.RequestLimit = Unlimited
            => out.RequestLimit = IF resolver.requestLimit > 0
                                    THEN resolver.requestLimit ELSE Unlimited

\* C19 witness: tier "unlimited" with a token_limit of -5 and a
\* request_limit of 3.
C19_Witness ==
  /\ Overridden /\ resolver.arg = "unlimited"
  /\ resolver.tokenLimit = -5 /\ resolver.requestLimit = 3
  /\ resolver.limits.TokenLimit = Unlimited
  /\ resolver.limits.RequestLimit = 3

Malformed(req) == ~isValidTeamID(req.team) \/ req.tier \notin KnownTiers

MetExisting(pr) ==
  /\ pr.op = "createTeam" /\ pr.calls # <<>>
  /\ \/ pr.calls[1][2] = "ok"
     \/ /\ Len(pr.calls) >= 2
        /\ pr.calls[2] = <<<<"secrets.create", "">>, "exists">>

TeamNamingOps ==
  {"deleteTeam", "syncTeamPolicies", "createTeamKey", "listTeamKeys",
   "listTeamMembers"}

\* C23: a deleteTeam, syncTeamPolicies, createTeamKey, listTeamKeys or
\* listTeamMembers with a well-formed request that names a team whose Team
\* record is not in the store answers 404 "Team not found" after its one
\* Get, and changes neither the entity store nor the policy store.
C23_MissingTeamIsNotFound ==
  [][\A p \in Procs :
       (/\ procs[p].pc = "idle" /\ procs'[p].op \in TeamNamingOps
        /\ procs'[p].calls # <<>>
        /\ ~SecretExists(TeamSecretName(procs'[p].req.team)))
         => /\ procs'[p].pc = "done"
            /\ procs'[p].status = StatusNotFound
            /\ procs'[p].error = "Team not found"
            /\ Len(procs'[p].calls) = 1
            /\ secrets' = secrets /\ policies' = policies]_vars

\* C23 witness: the default team is gone, a key record of it is still
\* there, and a deleteTeam of the team has been answered 404.
C23_Witness ==
  /\ Answered("A", "deleteTeam") /\ procs["A"].status = StatusNotFound
  /\ procs["A"].calls = << <<<<"secrets.get", "">>, "notfound">> >>
  /\ ~SecretExists(TeamSecretName(DefaultTeam))
  /\ TeamKeySecrets(DefaultTeam) # {}

\* The store calls of a deleteTeam that found its team, in order.
DeleteTeamCalls ==
  << <<"secrets.get", "">>, <<"policy.delete", "token">>,
     <<"policy.delete", "request">>, <<"secrets.deletecollection", "">>,
     <<"secrets.delete", "">> >>

\* C24: whatever the deletes of the token policy and of the request policy
\* return, a deleteTeam that found its team attempts both, then the delete
\* of the keys, then the delete of the Team record, and answers by the
\* outcome of that last delete alone: 200, with the record gone, when it
\* succeeded.
C24_RetractNeverBlocks ==
  \A p \in Procs :
    (procs[p].op = "deleteTeam" /\ procs[p].calls # <<>>
       /\ procs[p].calls[1][2] = "ok")
      => LET pr == procs[p] IN
         /\ Len(pr.calls) <= Len(DeleteTeamCalls)
         /\ \A i \in DOMAIN pr.calls : pr.calls[i][1] = DeleteTeamCalls[i]
         /\ pr.pc = "done"
              => /\ Len(pr.calls) = Len(DeleteTeamCalls)
                 /\ pr.status = IF pr.calls[5][2] = "ok"
                                  THEN StatusOK ELSE StatusInternalServerError
                 /\ pr.calls[5][2] = "ok"
                      => ~SecretExists(TeamSecretName(pr.req.team))
                 /\ pr.calls[4][2] = "ok" => TeamKeySecrets(pr.req.team) = {}

\* C24 witness: both policy deletes failed, the token policy of t1 is still
\* in the policy store, and deleteTeam has removed the record and answered
\* 200.
C24_Witness ==
  /\ Answered("A", "deleteTeam") /\ procs["A"].status = StatusOK
  /\ procs["A"].req.team = "t1"
  /\ procs["A"].calls[2][2] = "error" /\ procs["A"].calls[3][2] # "ok"
  /\ PolicyExists("token", PolicyName("t1", "token"))
  /\ ~SecretExists(TeamSecretName("t1"))

(***************************************************************************)
(* Policies of team t1: SpecPolicies.                                      *)
(***************************************************************************)

\* A token policy object of that name is in the policy store.
TokenPolicyNamed(name) ==
  \E o \in policies : o.resource = PolicyResource("token") /\ o.name = name

\* C25: after a createTeam of a non-default team with a finite token limit
\* has answered 200, a token policy named team-<id>-rate-limits is in the
\* policy store, and a getTeamPolicies of a team so created reports the
\* name of a token policy that is in the policy store.
C25_ReportedPolicyExists ==
  \A p \in Procs :
    LET pr == procs[p] IN
    /\ (/\ Answered(p, "createTeam") /\ pr.status = StatusOK
        /\ pr.req.team # DefaultTeam
        /\ KindLimit("token", pr.limits) # Unlimited)
         => TokenPolicyNamed(RateLimitName(pr.req.team))
    /\ (/\ Answered(p, "getTeamPolicies") /\ pr.status = StatusOK
        /\ pr.req.team \in created
        /\ KindLimit("token", pr.limits) # Unlimited)
         => /\ pr.rateLimitName = RateLimitName(pr.req.team)
            /\ TokenPolicyNamed(pr.rateLimitName)

\* C26: every key record is created with status "active", and in every
\* reachable state the status of every key record is "active" or
\* "inactive", whatever updateKey requests were made.
C26_StatusActiveOrInactive ==
  /\ \A p \in Procs :
       (Answered(p, "createTeamKey") /\ procs[p].status = StatusOK)
         => GetSecret(procs[p].target).status = "active"
  /\ \A s \in secrets :
       s.rtype = "team-key" => s.status \in {"active", "inactive"}

\* The handlers that publish.
PublishingOps == {"createTeam", "syncTeamPolicies"}

\* The calls of one upsert are create; or create (already exists), get; or
\* create (already exists), get (ok), update.
UpsertShape(path) ==
  /\ Len(path) <= 3
  /\ Len(path) >= 1 => path[1][1] = "policy.create"
  /\ Len(path) >= 2 => path[1][2] = "exists" /\ path[2][1] = "policy.get"
  /\ Len(path) >= 3 => path[2][2] = "ok" /\ path[3][1] = "policy.update"

CallsMade(pr) == {pr.calls[i][1] : i \in DOMAIN pr.calls}

\* C28: a deleteTeam removes the Team record only in its last step, after
\* it has attempted the delete of the token policy, the delete of the
\* request policy and the delete of the team's key records; as long as a
\* deleteTeam that found its team has not made that last call, the Team
\* record is in the store.
C28_TeamRecordDeletedLast ==
  /\ [](\A p \in Procs :
          (procs[p].op = "deleteTeam" /\ procs[p].calls # <<>>
             /\ procs[p].calls[1][2] = "ok")
            => /\ <<"secrets.delete", "">> \notin CallsMade(procs[p])
                    => SecretExists(TeamSecretName(procs[p].req.team))
               /\ <<"secrets.delete", "">> \in CallsMade(procs[p])
                    => {<<"policy.delete", "token">>,
                        <<"policy.delete", "request">>,
                        <<"secrets.deletecollection", "">>}
                         \subseteq CallsMade([procs[p] EXCEPT
                              !.calls = SubSeq(@, 1, Len(@) - 1)]))
  /\ [][\A p \in Procs :
          (/\ procs'[p] # procs[p] /\ procs'[p].op = "deleteTeam"
           /\ TeamRecords' # TeamRecords)
            => /\ procs[p].pc = "dt_team"
               /\ {<<"policy.delete", "token">>, <<"policy.delete", "request">>,
                   <<"secrets.deletecollection", "">>}
                    \subseteq CallsMade(procs[p])]_vars

\* C28 witness: a deleteTeam of the default team, which had a key record,
\* has deleted the keys and then the Team record.
C28_Witness ==
  /\ Answered("A", "deleteTeam") /\ procs["A"].status = StatusOK
  /\ procs["A"].req.team = DefaultTeam
  /\ procs["A"].calls[4] = <<<<"secrets.deletecollection", "">>, "ok">>
  /\ nextToken >= 1 /\ secrets = {}

\* C29: whenever no handler is under way, every key record in the entity
\* store carries the team_id of a Team record that is in the store.
C29_NoKeyOutlivesItsTeam ==
  (\A p \in Procs : procs[p].pc \in {"idle", "done"})
    => \A s \in secrets :
         s.rtype = "team-key" => SecretExists(TeamSecretName(s.team))

(***************************************************************************)
(* Two callers publishing for team t1: SpecSync.                           *)
(***************************************************************************)

\* The content of a policy object.
Definition(o) == [limit |-> o.limit, window |-> o.window]

\* The definition caller p published for the kind.
Published(p, kind) ==
  [limit |-> KindLimit(kind, procs[p].limits),
   window |-> KindWindow(kind, procs[p].limits)]

\* C30, first part: at most one policy object per team and kind.
OneObjectPerKind ==
  \A kind \in Kinds : Cardinality(PolicyObjects("t1", kind)) <= 1

\* C30, second part: a caller whose update carried a version that was no
\* longer current had the update refused, and answers an error.
StaleUpdateFails ==
  \A p \in Procs :
    (\E i \in DOMAIN procs[p].calls :
        procs[p].calls[i] \in {<<<<"policy.update", kind>>, "conflict">> :
                                 kind \in Kinds})
      => /\ procs[p].pc \in {"ct_rollback", "done"}
         /\ procs[p].pc = "done" => procs[p].status = StatusInternalServerError

\* C30, third part: once two callers that both published the kind have
\* answered, the object of the kind is the definition of one of them that
\* answered 200, or still that of the createTeam that answered 200 before
\* them.
RemainingIsFromOkCall ==
  \A kind \in Kinds :
    (\A p \in Procs : procs[p].pc = "done" /\ KindPath(procs[p], kind) # <<>>)
      => \A o \in PolicyObjects("t1", kind) :
           \/ \E p \in Procs : /\ procs[p].status = StatusOK
                               /\ Definition(o) = Published(p, kind)
           \/ \E before \in SyncTeamPublished :
                /\ before.resource = o.resource
                /\ Definition(o) = Definition(before)

\* C30: two callers publishing for the same team and kind leave at most
\* one object for the pair, a stale update is refused and its caller
\* answers an error, and the object that remains is the definition of a
\* call that answered 200.
C30_ConcurrentPublishes ==
  OneObjectPerKind /\ StaleUpdateFails /\ RemainingIsFromOkCall

(***************************************************************************)
(* A call racing a deleteTeam of its team: SpecKeyRace, SpecPolicyRace.    *)
(***************************************************************************)

\* C31 as stated: once a createTeamKey and a deleteTeam of the same team
\* have both answered and the deleteTeam answered 200, no key record with
\* the team's label is in the entity store.
C31_NoKeyAfterDeleteTeam ==
  \A p \in Procs : \A q \in Procs \ {p} :
    (/\ Answered(p, "deleteTeam") /\ procs[p].status = StatusOK
     /\ Answered(q, "createTeamKey")
     /\ procs[q].req.team = procs[p].req.team)
      => TeamKeySecrets(procs[p].req.team) = {}

\* C32 as stated: once a syncTeamPolicies and a deleteTeam of the same
\* team have both answered and the deleteTeam answered 200, the policy
\* store holds no object of the team.
C32_NoPolicyAfterDeleteTeam ==
  \A p \in Procs : \A q \in Procs \ {p} :
    (/\ Answered(p, "deleteTeam") /\ procs[p].status = StatusOK
     /\ Answered(q, "syncTeamPolicies")
     /\ procs[q].req.team = procs[p].req.team)
      => /\ \A kind \in Kinds : PolicyObjects(procs[p].req.team, kind) = {}
         /\ {o \in policies : o.team = procs[p].req.team} = {}

\* C33 as stated: the compensating delete of a createTeam removes the
\* Team record that this call wrote and no other, and never the record of
\* a team whose createTeam answered 200.
C33_RollbackRemovesOwnRecord ==
  [][\A p \in Procs :
       (/\ procs[p].pc = "ct_rollback" /\ procs'[p].pc = "done"
        /\ LastCall(procs'[p]) = <<<<"secrets.delete", "">>, "ok">>)
         => /\ GetSecret(TeamSecretName(procs[p].req.team))
                 = TeamConfigSecret(procs[p].req)
            /\ procs[p].req.team \notin created]_vars

(***************************************************************************)
(* No retry, abort on the first failure.                                   *)
(***************************************************************************)
LifecycleOps == {"createTeam", "deleteTeam", "syncTeamPolicies"}

\* The forward steps of createTeam and syncTeamPolicies: the write of the
\* Team record and the calls of the two publishes.
ForwardCalls == {"secrets.create"} \cup PublishCalls

\* A forward call that failed; "already exists" on the create of a policy
\* is the first half of the upsert and no failure.
FailedForward(c) ==
  /\ c[1][1] \in ForwardCalls
  /\ c[2] # "ok"
  /\ ~(c[1][1] = "policy.create" /\ c[2] = "exists")

\* No store call is made twice within one handler.
NoCallTwice ==
  \A p \in Procs :
    procs[p].op \in LifecycleOps =>
      \A i, j \in DOMAIN procs[p].calls :
        procs[p].calls[i][1] = procs[p].calls[j][1] => i = j

\* After the first failed forward call, createTeam makes at most the
\* compensating delete and syncTeamPolicies makes no call.
AbortsOnFirstFailure ==
  \A p \in Procs :
    procs[p].op \in PublishingOps =>
      LET pr == procs[p] IN
      \A i, j \in DOMAIN pr.calls :
        (i < j /\ FailedForward(pr.calls[i]))
          => /\ pr.op = "createTeam"
             /\ pr.calls[j][1][1] = "secrets.delete"
             /\ j = i + 1 /\ j = Len(pr.calls)

\* C34: every handler that has begun answers, whatever its store calls
\* return; no handler makes the same store call twice; and after the first
\* failed forward call of createTeam or syncTeamPolicies no other forward
\* call is made.
C34_NoRetryAbortOnFailure ==
  /\ []NoCallTwice
  /\ []AbortsOnFirstFailure
  /\ \A p \in Procs :
       (procs[p].pc \notin {"idle", "done"}) ~> (procs[p].pc = "done")

\* C34 witness: a createTeam with both kinds due whose create of the token
\* policy failed has answered after four calls, the last of them the
\* compensating delete, with no call for the request kind.
C34_Witness ==
  /\ Answered("A", "createTeam")
  /\ \A kind \in Kinds :
       KindLimit(kind, CreateTeamLimits(procs["A"].req)) # Unlimited
  /\ Len(procs["A"].calls) = 4
  /\ procs["A"].calls[3] = <<<<"policy.create", "token">>, "error">>
  /\ procs["A"].calls[4][1] = <<"secrets.delete", "">>
  /\ KindPath(procs["A"], "request") = <<>>

(***************************************************************************)
(* Key operations on a team that is not there.                             *)
(***************************************************************************)

\* The key record that caller p is about to update or delete has no Team
\* record.
TargetsOrphanedKey(p) ==
  /\ SecretExists(procs[p].target)
  /\ GetSecret(procs[p].target).rtype = "team-key"
  /\ ~SecretExists(TeamSecretName(GetSecret(procs[p].target).team))

\* C35 as stated: a createTeamKey for a team without a Team record answers
\* 404 and leaves the entity store as it was; an updateKey or a
\* deleteTeamKey of a key record whose team has no Team record does not
\* answer 200 and leaves the entity store as it was.
C35_KeyOpsRecheckTeam ==
  [][\A p \in Procs :
       /\ (/\ procs[p].pc = "idle" /\ procs'[p].op = "createTeamKey"
           /\ procs'[p].req.user # ""
           /\ ~SecretExists(TeamSecretName(procs'[p].req.team)))
            => /\ procs'[p].pc = "done"
               /\ procs'[p].status = StatusNotFound
               /\ secrets' = secrets
       /\ (/\ procs[p].pc \in {"uk_update", "dtk_delete"}
           /\ procs'[p].pc = "done"
           /\ TargetsOrphanedKey(p))
            => /\ procs'[p].status # StatusOK
               /\ secrets' = secrets]_vars

C37_RetractAddressesPublished ==
  [][\A p \in Procs :
       LET kind == procs[p].kind
           name == PolicyName(procs[p].req.team, kind)
       IN (/\ procs[p].pc = "dt_policy" /\ procs'[p] # procs[p]
           /\ LastCall(procs'[p])[2] # "error"
           /\ PolicyExists(kind, name))
            => /\ RetractVersion(kind) = PublishVersion(kind)
               /\ GetPolicy(kind, name) \notin policies']_vars

(***************************************************************************)
(* Startup of the default team: SpecStartup.                               *)
(***************************************************************************)
DefaultTeamRecords(set) ==
  {s \in set : s.rtype = "team-config" /\ s.team = DefaultTeam}

\* No store call of the startup failed.
NoStartupFault(result) ==
  \A i \in DOMAIN result.calls : result.calls[i][2] # "error"

\* C38: when the Team record of "default" is in the store,
\* createDefaultTeamOnStartup changes neither store and, no store call
\* failing, returns nil; when it is not, the startup publishes no policy
\* object and, no store call failing, returns nil and has added exactly one
\* secret, the Team record of "default".
C38_StartupIdempotent ==
  [][(~startup.ran /\ startup'.ran) =>
       IF SecretExists(TeamSecretName(DefaultTeam))
         THEN /\ secrets' = secrets /\ policies' = policies
              /\ NoStartupFault(startup') => startup'.err = ""
         ELSE /\ policies' = policies
              /\ NoStartupFault(startup') =>
                   /\ startup'.err = ""
                   /\ Cardinality(secrets' \ secrets) = 1
                   /\ secrets \subseteq secrets'
                   /\ Cardinality(DefaultTeamRecords(secrets')) = 1
                   /\ (secrets' \ secrets) = DefaultTeamRecords(secrets')
                   /\ {o \in policies' : o.team = DefaultTeam} = {}]_vars

\* C38 witness: the process has started again after a createTeam wrote the
\* Team record of "default" with the tier premium; the startup found the
\* record with its one Get and returned nil, and the record is as it was.
C38_Witness ==
  /\ startup = StartupResult("", << <<<<"secrets.get", "">>, "ok">> >>)
  /\ DefaultTeamRecords(secrets) =
       {TeamConfigSecret(TeamReq(DefaultTeam, "Default Team", "premium", 7, 0, ""))}

====
